---- MODULE Spec2Model ----
(***************************************************************************)
(* Model of the file service of AI-Scanner-Backend: FilesService           *)
(* (uploadFiles, getUserFiles, getTotalFilesCount, updateFile,             *)
(* deleteFiles, convertToPdf, convertToScan), the scanner pipelines of     *)
(* MediaService, the File entity and the cursor codec, over a record       *)
(* store (Postgres), an object store (R2) and the temporary directory.     *)
(*                                                                         *)
(* Text is a sequence of character codes (ASCII), so that the cursor       *)
(* codec (template string, base64, split, parseInt, uuid input) is         *)
(* computed the way the code computes it.                                  *)
(***************************************************************************)
EXTENDS Integers, Sequences, FiniteSets, TLC

\* ------------------------------------------------------------------ bounds
MaxSeed == 3        \* records in the store when a paging scenario starts
MaxStored == 2      \* records in the store when a deleting scenario starts
MaxClock == 1       \* last value of Date.now() the model reaches
MaxFiles == 3       \* items in one uploadFiles request
MaxDeleteIds == 2   \* ids in one deleteFiles request
MaxDeletes == 2     \* deleteFiles calls in one behaviour
MaxLimit == 2       \* largest limit a getUserFiles request names
MaxKept == 2        \* records in the store when an updating scenario starts
MaxUpdates == 2      \* updateFile calls in one behaviour
MaxMerges == 1       \* mergeFiles calls in one behaviour
MaxUploadSeq == 2    \* last upload number an uploading scenario reaches

\* ------------------------------------------------------- program constants
DefaultLimit == 20
LimitMin == 1        \* @Min(1) of GetFilesDto.limit
LimitMax == 100      \* @Max(100) of GetFilesDto.limit
ClockBase == 8      \* Date.now() of the first modelled instant, so that
                    \* timestamps of one and of two digits both occur

\* --------------------------------------------------------------- text
Range(s) == {s[i] : i \in 1..Len(s)}

CH_PLUS == 43
CH_MINUS == 45
CH_SLASH == 47
CH_ZERO == 48
CH_EQ == 61
CH_UNDERSCORE == 95
CH_REPLACEMENT == 65533

Digits == 48..57
Whitespace == {9, 10, 11, 12, 13, 32}

\* `${n}`: decimal text of a non-negative integer
RECURSIVE NumToStr(_)
NumToStr(n) ==
    IF n < 10 THEN <<CH_ZERO + n>>
    ELSE Append(NumToStr(n \div 10), CH_ZERO + (n % 10))

\* parseInt(s, 10): leading whitespace skipped, optional sign, then the
\* longest run of digits; NaN when there is no digit.
RECURSIVE SkipWs(_)
SkipWs(s) ==
    IF Len(s) > 0 /\ s[1] \in Whitespace THEN SkipWs(Tail(s)) ELSE s

RECURSIVE DigitsVal(_, _)
DigitsVal(s, acc) ==
    IF Len(s) > 0 /\ s[1] \in Digits
    THEN DigitsVal(Tail(s), acc * 10 + (s[1] - CH_ZERO))
    ELSE acc

\* (variant: only the first digit is read)
parseIntMutOneDigit(s) ==
    LET t == SkipWs(s)
        u == IF Len(t) > 0 /\ t[1] \in {CH_PLUS, CH_MINUS} THEN Tail(t) ELSE t
    IN  IF Len(u) = 0 \/ u[1] \notin Digits
        THEN [nan |-> TRUE, val |-> 0]
        ELSE [nan |-> FALSE, val |-> u[1] - CH_ZERO]

parseInt(s) ==
    LET t == SkipWs(s)
        neg == Len(t) > 0 /\ t[1] = CH_MINUS
        u == IF Len(t) > 0 /\ t[1] \in {CH_PLUS, CH_MINUS} THEN Tail(t) ELSE t
    IN  IF Len(u) = 0 \/ u[1] \notin Digits
        THEN [nan |-> TRUE, val |-> 0]
        ELSE [nan |-> FALSE,
              val |-> IF neg THEN 0 - DigitsVal(u, 0) ELSE DigitsVal(u, 0)]

\* decoded.split('_'): the list of segments between underscores
RECURSIVE split(_, _)
split(s, sep) ==
    IF \A i \in 1..Len(s) : s[i] # sep THEN <<s>>
    ELSE LET k == CHOOSE i \in 1..Len(s) :
                      s[i] = sep /\ \A j \in 1..(i - 1) : s[j] # sep
         IN  <<SubSeq(s, 1, k - 1)>> \o split(SubSeq(s, k + 1, Len(s)), sep)

\* ------------------------------------------------------------- base64
\* Buffer.from(text).toString('base64'): standard alphabet, '=' padding.
B64Char(v) ==
    IF v < 26 THEN 65 + v
    ELSE IF v < 52 THEN 97 + (v - 26)
    ELSE IF v < 62 THEN 48 + (v - 52)
    ELSE IF v = 62 THEN CH_PLUS ELSE CH_SLASH

\* value of a base64 character; 64 for a character outside the alphabets
\* (the decoder accepts the URL-safe '-' and '_' too)
B64Val(c) ==
    IF c \in 65..90 THEN c - 65
    ELSE IF c \in 97..122 THEN c - 71
    ELSE IF c \in 48..57 THEN c + 4
    ELSE IF c \in {CH_PLUS, CH_MINUS} THEN 62
    ELSE IF c \in {CH_SLASH, CH_UNDERSCORE} THEN 63
    ELSE 64

RECURSIVE ToBase64(_)
ToBase64(b) ==
    IF Len(b) = 0 THEN <<>>
    ELSE IF Len(b) = 1 THEN
        <<B64Char(b[1] \div 4), B64Char((b[1] % 4) * 16), CH_EQ, CH_EQ>>
    ELSE IF Len(b) = 2 THEN
        <<B64Char(b[1] \div 4),
          B64Char((b[1] % 4) * 16 + (b[2] \div 16)),
          B64Char((b[2] % 16) * 4), CH_EQ>>
    ELSE
        <<B64Char(b[1] \div 4),
          B64Char((b[1] % 4) * 16 + (b[2] \div 16)),
          B64Char((b[2] % 16) * 4 + (b[3] \div 64)),
          B64Char(b[3] % 64)>> \o ToBase64(SubSeq(b, 4, Len(b)))

\* Buffer.from(text, 'base64') never throws: characters outside the
\* alphabet are skipped and decoding stops at the first '='.
RECURSIVE B64Sextets(_)
B64Sextets(s) ==
    IF Len(s) = 0 \/ s[1] = CH_EQ THEN <<>>
    ELSE IF B64Val(s[1]) = 64 THEN B64Sextets(Tail(s))
    ELSE <<B64Val(s[1])>> \o B64Sextets(Tail(s))

RECURSIVE SextetsToBytes(_)
SextetsToBytes(v) ==
    IF Len(v) < 2 THEN <<>>
    ELSE IF Len(v) = 2 THEN <<v[1] * 4 + (v[2] \div 16)>>
    ELSE IF Len(v) = 3 THEN
        <<v[1] * 4 + (v[2] \div 16), (v[2] % 16) * 16 + (v[3] \div 4)>>
    ELSE
        <<v[1] * 4 + (v[2] \div 16),
          (v[2] % 16) * 16 + (v[3] \div 4),
          (v[3] % 4) * 64 + v[4]>> \o SextetsToBytes(SubSeq(v, 5, Len(v)))

\* .toString('utf-8'): an ASCII byte is its character; a byte that is not
\* ASCII yields a character that is no digit, letter or underscore.
Utf8ToString(b) ==
    [i \in 1..Len(b) |-> IF b[i] < 128 THEN b[i] ELSE CH_REPLACEMENT]

FromBase64(s) == Utf8ToString(SextetsToBytes(B64Sextets(s)))

\* ------------------------------------------------------------- uuid
\* ids are short hexadecimal texts (36 characters in Postgres, 2 here):
\* the ids the uuid generator can hand out, in the order of the uuid type,
\* and one uuid it never hands out
IdSeq == <<(<<49, 97>>), (<<50, 98>>), (<<97, 48>>), (<<98, 49>>)>>  \* 1a 2b a0 b1
GhostId == <<102, 102>>                                          \* ff


HexVal(c) ==
    IF c \in 48..57 THEN c - 48
    ELSE IF c \in 97..102 THEN c - 87
    ELSE IF c \in 65..70 THEN c - 55
    ELSE 16

\* uuid input of Postgres: fixed length, hexadecimal digits of either case
IsUuid(s) == Len(s) = Len(GhostId) /\ \A i \in 1..Len(s) : HexVal(s[i]) < 16

UuidVal(s) == [i \in 1..Len(s) |-> HexVal(s[i])]

\* order of the uuid type: bytewise, first difference decides
RECURSIVE SeqLess(_, _)
SeqLess(a, b) ==
    IF Len(b) = 0 THEN FALSE
    ELSE IF Len(a) = 0 THEN TRUE
    ELSE IF a[1] # b[1] THEN a[1] < b[1]
    ELSE SeqLess(Tail(a), Tail(b))

UuidLess(a, b) == SeqLess(UuidVal(a), UuidVal(b))

\* ------------------------------------------------------------ universe
KnownUsers == {"u1", "u2"}            \* rows of the user table
Callers == KnownUsers \cup {"u9"}      \* "u9": a user id with no row

IdPool == Range(IdSeq)

allowedMimeTypes ==
    {"image/jpeg", "image/jpg", "image/png", "image/gif", "image/webp",
     "image/bmp", "image/svg+xml"}

\* an uploaded item: originalname as its '.'-separated segments, mimetype
PngItem == [originalname |-> <<"a", "png">>, mimetype |-> "image/png"]
JpgItem == [originalname |-> <<"b">>, mimetype |-> "image/jpeg"]
PdfItem == [originalname |-> <<"c", "pdf">>, mimetype |-> "application/pdf"]
Items == {PngItem, JpgItem, PdfItem}

r2Region == <<"r2">>                  \* process.env.R2_REGION, as segments
NULL == <<>>                          \* null / undefined / empty text
UNDEFINED == "undefined"              \* a field a request body leaves out
NoFile == [id |-> NULL]               \* no entity / no uploaded file
NoBuffer == [of |-> "none", bytes |-> 0]
NoPath == [dir |-> "", name |-> "", at |-> 0]
NoStage == [name |-> "none", input |-> NoPath, output |-> NoPath,
            timeout |-> FALSE]

VARIABLES
    fileRepository,   \* rows of table files
    bucket,           \* keys present in the object store
    s3Sent,           \* commands sent to the object store: [cmd, key]
    clock,            \* Date.now()
    usedIds,          \* uuids generated so far
    uploadSeq,        \* stands for `${timestamp}-${randomString}` of a call
    upPc, upUser, upFiles, upKeys, upResults, upResult,
    delPc, delUser, delIds, delFiles, delKeys, delPending, delResult,
    delCalls, delDone,
    lsPc, lsUser, lsLimit, lsReqCursor, lsCursor, lsSeen, lsStart, lsResult,
    updPc, updUser, updId, updDto, updFile, updResult, updCalls,
    totResult,        \* last answer of getTotalFilesCount
    mediaRepository,  \* rows of table media
    tmpFiles,         \* files and directories under os.tmpdir(): [path, bytes]
    plPuts,           \* bodies this pipeline request put: [key, body, bytes]
    plStages,         \* stage invocations of the request, as they went
    plPc, plOp, plUser, plFile, plStage, plProc, plBuffer, plResult,
    mgPc, mgUser, mgIds, mgFiles, mgResult, mgCalls,
    d2Pc, d2User, d2Ids, d2Files, d2Pending, d2Result,
    rvPc, rvStage, rvProc,
    gfResult,         \* last answer of getFileById
    touched           \* ids written since the traversal began

storeVars == <<fileRepository, bucket, s3Sent, clock, usedIds, uploadSeq>>
upVars == <<upPc, upUser, upFiles, upKeys, upResults, upResult>>
delVars == <<delPc, delUser, delIds, delFiles, delKeys, delPending,
             delResult, delCalls, delDone>>
lsVars == <<lsPc, lsUser, lsLimit, lsReqCursor, lsCursor, lsSeen, lsStart,
            lsResult>>
updVars == <<updPc, updUser, updId, updDto, updFile, updResult, updCalls>>
totVars == <<totResult>>
plVars == <<mediaRepository, tmpFiles, plPuts, plStages, plPc, plOp, plUser,
            plFile, plStage, plProc, plBuffer, plResult>>
mgVars == <<mgPc, mgUser, mgIds, mgFiles, mgResult, mgCalls>>
d2Vars == <<d2Pc, d2User, d2Ids, d2Files, d2Pending, d2Result>>
rvVars == <<rvPc, rvStage, rvProc>>
sideVars == <<mgVars, d2Vars, rvVars, gfResult, touched>>
\* what uploadFiles, deleteFiles and getUserFiles never touch
restVars == <<updVars, totVars, plVars, sideVars>>
vars == <<storeVars, upVars, delVars, lsVars, restVars>>

\* ------------------------------------------------------ object-store keys
\* storedFileName `${userId}-${timestamp}-${randomString}-${index}.${ext}`
StoredFileName(userId, seq, index, originalname) ==
    <<userId, seq, index, originalname[Len(originalname)]>>

\* `${this.r2Region}/${storedFileName}`, as '/'-separated segments
UrlOf(storedFileName) == r2Region \o <<storedFileName>>

\* url.split('/') then parts[parts.length - 1]
FileKeyOfUrl(url) == url[Len(url)]

\* --------------------------------------------------------- getUserFiles
FileLess(a, b) ==
    \/ a.updatedAt < b.updatedAt
    \/ a.updatedAt = b.updatedAt /\ UuidLess(a.id, b.id)

\* ORDER BY updated_at DESC, id DESC
RECURSIVE OrderDesc(_)
OrderDesc(S) ==
    IF S = {} THEN <<>>
    ELSE LET m == CHOOSE r \in S : \A o \in S \ {r} : FileLess(o, r)
         IN  <<m>> \o OrderDesc(S \ {m})

Take(s, n) == SubSeq(s, 1, IF Len(s) < n THEN Len(s) ELSE n)

\* `${lastFile.updatedAt}_${lastFile.id}` then base64
EncodeCursor(file) ==
    ToBase64(NumToStr(file.updatedAt) \o <<CH_UNDERSCORE>> \o file.id)

\* the cursor branch: [applied] tells whether the andWhere is added
DecodeCursor(cursor) ==
    LET decoded == FromBase64(cursor)
        parts == split(decoded, CH_UNDERSCORE)
        updatedAt == parts[1]
        id == IF Len(parts) >= 2 THEN parts[2] ELSE NULL
    IN  IF cursor # NULL /\ updatedAt # NULL /\ id # NULL
        THEN [applied |-> TRUE, updatedAt |-> parseInt(updatedAt), id |-> id]
        ELSE [applied |-> FALSE, updatedAt |-> [nan |-> FALSE, val |-> 0],
              id |-> NULL]

\* (variant: the id tie-break of the andWhere left out)
CursorWhereMutNoTie(row, c) ==
    row.updatedAt < c.updatedAt.val

\* the andWhere of the cursor, on one row
CursorWhere(row, c) ==
    \/ row.updatedAt < c.updatedAt.val
    \/ row.updatedAt = c.updatedAt.val /\ UuidLess(row.id, c.id)

\* getMany() rejects when a parameter is no value of its column type:
\* NaN for the bigint updated_at, a text that is no uuid for id
QueryFails(c) == c.applied /\ (c.updatedAt.nan \/ ~IsUuid(c.id))

\* (variant: the cursor is built from the extra row that was fetched)
GetUserFilesMutExtraRow(store, userId, cursor, limitArg) ==
    LET limit == IF limitArg = 0 THEN DefaultLimit ELSE limitArg
        c == DecodeCursor(cursor)
        rows == {f \in store : /\ f.user = userId
                               /\ f.status = "active"
                               /\ (c.applied => CursorWhere(f, c))}
        files == Take(OrderDesc(rows), limit + 1)
        hasMore == Len(files) > limit
        resultFiles == IF hasMore THEN Take(files, limit) ELSE files
    IN  IF QueryFails(c)
        THEN [error |-> TRUE, files |-> <<>>, nextCursor |-> NULL,
              fetch |-> limit + 1]
        ELSE [error |-> FALSE,
              files |-> resultFiles,
              nextCursor |->
                  IF hasMore /\ Len(resultFiles) > 0
                  THEN EncodeCursor(files[Len(files)])
                  ELSE NULL,
              fetch |-> limit + 1]

\* limitArg 0 stands for the falsy values of getFilesDto.limit (undefined,
\* 0); [fetch] is the number handed to .limit() of the query
GetUserFiles(store, userId, cursor, limitArg) ==
    LET limit == IF limitArg = 0 THEN DefaultLimit ELSE limitArg
        c == DecodeCursor(cursor)
        rows == {f \in store : /\ f.user = userId
                               /\ f.status = "active"
                               /\ (c.applied => CursorWhere(f, c))}
        files == Take(OrderDesc(rows), limit + 1)
        hasMore == Len(files) > limit
        resultFiles == IF hasMore THEN Take(files, limit) ELSE files
    IN  IF QueryFails(c)
        THEN [error |-> TRUE, files |-> <<>>, nextCursor |-> NULL,
              fetch |-> limit + 1]
        ELSE [error |-> FALSE,
              files |-> resultFiles,
              nextCursor |->
                  IF hasMore /\ Len(resultFiles) > 0
                  THEN EncodeCursor(resultFiles[Len(resultFiles)])
                  ELSE NULL,
              fetch |-> limit + 1]

\* (variant: the status condition of the count left out)
getTotalFilesCountMutAll(store, userId) ==
    Cardinality({f \in store : f.user = userId})

\* fileRepository.count({ where: { user: { id: userId }, status: 'active' } })
getTotalFilesCount(store, userId) ==
    Cardinality({f \in store : f.user = userId /\ f.status = "active"})

\* --------------------------------------------------------- uploadFiles
NoResult == [kind |-> "none"]

\* (variant: only the first item's type is checked)
UploadPreflightMutFirstOnly(files) ==
    IF Len(files) = 0 THEN "No files provided"
    ELSE IF files[1].mimetype \notin allowedMimeTypes
         THEN "Invalid file type"
         ELSE "ok"

\* the checks made before the first await
UploadPreflight(files) ==
    IF Len(files) = 0 THEN "No files provided"
    ELSE IF \E i \in 1..Len(files) : files[i].mimetype \notin allowedMimeTypes
         THEN "Invalid file type"
         ELSE "ok"

\* what the async function of item i returns when its put succeeded
UploadValue(files, keys, i) ==
    [url |-> UrlOf(keys[i]), originalName |-> files[i].originalname,
     index |-> i - 1]

\* (variant: the comparator reversed, b.index - a.index)
RECURSIVE SortByIndexMutDesc(_)
SortByIndexMutDesc(S) ==
    IF S = {} THEN <<>>
    ELSE LET m == CHOOSE v \in S : \A o \in S : v.index >= o.index
         IN  <<m>> \o SortByIndexMutDesc(S \ {m})

\* .sort((a, b) => a.index - b.index)
RECURSIVE SortByIndex(_)
SortByIndex(S) ==
    IF S = {} THEN <<>>
    ELSE LET m == CHOOSE v \in S : \A o \in S : v.index <= o.index
         IN  <<m>> \o SortByIndex(S \ {m})

\* results.map(...).filter(r => r !== null).sort(...)
SuccessfulUploads(files, keys, results) ==
    SortByIndex({UploadValue(files, keys, i) :
                    i \in {j \in 1..Len(files) : results[j] = "fulfilled"}})

\* (variant: name and thumbnail taken from the last successful upload)
NewFileEntityMutLast(id, userId, successfulUploads, now) ==
    [id |-> id,
     user |-> userId,
     fileUrls |-> [i \in 1..Len(successfulUploads) |-> successfulUploads[i].url],
     fileName |-> successfulUploads[Len(successfulUploads)].originalName,
     thumbnailUrl |-> successfulUploads[Len(successfulUploads)].url,
     status |-> "active",
     createdAt |-> now,
     updatedAt |-> now]

\* fileRepository.create({...}) followed by createDates() at save
NewFileEntity(id, userId, successfulUploads, now) ==
    [id |-> id,
     user |-> userId,
     fileUrls |-> [i \in 1..Len(successfulUploads) |-> successfulUploads[i].url],
     fileName |-> successfulUploads[1].originalName,
     thumbnailUrl |-> successfulUploads[1].url,
     status |-> "active",
     createdAt |-> now,
     updatedAt |-> now]

UploadCall(userId, files) ==
    /\ upPc = "idle"
    /\ upUser' = userId
    /\ upFiles' = files
    /\ IF UploadPreflight(files) # "ok"
       THEN /\ upPc' = "failed"
            /\ upResult' = [kind |-> "BadRequest",
                            message |-> UploadPreflight(files)]
       ELSE /\ upPc' = "findUser"
            /\ upResult' = NoResult
    /\ UNCHANGED <<restVars, upKeys, upResults, storeVars, delVars, lsVars>>

\* userRepository.findOne answers; with a user, every put is sent
UploadFindUser ==
    /\ upPc = "findUser"
    /\ IF upUser \notin KnownUsers
       THEN /\ upPc' = "failed"
            /\ upResult' = [kind |-> "NotFound", message |-> "User not found"]
            /\ UNCHANGED <<upKeys, upResults, s3Sent, uploadSeq>>
       ELSE /\ upPc' = "uploading"
            /\ uploadSeq' = uploadSeq + 1
            /\ upKeys' = [i \in 1..Len(upFiles) |->
                            StoredFileName(upUser, uploadSeq + 1, i - 1,
                                           upFiles[i].originalname)]
            /\ upResults' = [i \in 1..Len(upFiles) |-> "pending"]
            /\ s3Sent' = s3Sent \cup
                   {[cmd |-> "put", key |-> upKeys'[i]] : i \in 1..Len(upFiles)}
            /\ UNCHANGED upResult
    /\ UNCHANGED <<restVars, upUser, upFiles, fileRepository, bucket, clock, usedIds,
                   delVars, lsVars>>

\* (variant: the catch of a failed put returns the item's value, not null)
PutSettleMutSwallow(i, ok) ==
    /\ upPc = "uploading"
    /\ i \in 1..Len(upFiles)
    /\ upResults[i] = "pending"
    /\ upResults' = [upResults EXCEPT ![i] = "fulfilled"]
    /\ bucket' = IF ok THEN bucket \cup {upKeys[i]} ELSE bucket
    /\ UNCHANGED <<restVars, upPc, upUser, upFiles, upKeys, upResult,
                   fileRepository, s3Sent, clock, usedIds, uploadSeq,
                   delVars, lsVars>>

\* the put of item i settles: committed, or failed and caught (null)
PutSettle(i, ok) ==
    /\ upPc = "uploading"
    /\ i \in 1..Len(upFiles)
    /\ upResults[i] = "pending"
    /\ upResults' = [upResults EXCEPT ![i] = IF ok THEN "fulfilled" ELSE "null"]
    /\ bucket' = IF ok THEN bucket \cup {upKeys[i]} ELSE bucket
    /\ UNCHANGED <<restVars, upPc, upUser, upFiles, upKeys, upResult,
                   fileRepository, s3Sent, clock, usedIds, uploadSeq,
                   delVars, lsVars>>

\* (variant: the record is built without awaiting Promise.allSettled)
UploadSaveMutEarly ==
    /\ upPc = "uploading"
    /\ LET successfulUploads == SuccessfulUploads(upFiles, upKeys, upResults)
       IN  IF Len(successfulUploads) = 0
           THEN /\ upPc' = "failed"
                /\ upResult' = [kind |-> "BadRequest",
                                message |-> "All files failed to upload"]
                /\ UNCHANGED <<fileRepository, usedIds>>
           ELSE \E id \in IdPool \ usedIds :
                LET savedFile == NewFileEntity(id, upUser, successfulUploads,
                                               clock)
                IN  /\ fileRepository' = fileRepository \cup {savedFile}
                    /\ usedIds' = usedIds \cup {id}
                    /\ upPc' = "done"
                    /\ upResult' = [kind |-> "ok", files |-> <<savedFile>>]
    /\ UNCHANGED <<restVars, upUser, upFiles, upKeys, upResults, bucket, s3Sent, clock,
                   uploadSeq, delVars, lsVars>>

\* Promise.allSettled has resolved: the record is built and saved
UploadSave ==
    /\ upPc = "uploading"
    /\ \A i \in 1..Len(upFiles) : upResults[i] # "pending"
    /\ LET successfulUploads == SuccessfulUploads(upFiles, upKeys, upResults)
       IN  IF Len(successfulUploads) = 0
           THEN /\ upPc' = "failed"
                /\ upResult' = [kind |-> "BadRequest",
                                message |-> "All files failed to upload"]
                /\ UNCHANGED <<fileRepository, usedIds>>
           ELSE \E id \in IdPool \ usedIds :
                LET savedFile == NewFileEntity(id, upUser, successfulUploads,
                                               clock)
                IN  /\ fileRepository' = fileRepository \cup {savedFile}
                    /\ usedIds' = usedIds \cup {id}
                    /\ upPc' = "done"
                    /\ upResult' = [kind |-> "ok", files |-> <<savedFile>>]
    /\ UNCHANGED <<restVars, upUser, upFiles, upKeys, upResults, bucket, s3Sent, clock,
                   uploadSeq, delVars, lsVars>>

\* the response has been sent
UploadReturn ==
    /\ upPc \in {"done", "failed"}
    /\ upPc' = "idle"
    /\ upUser' = NULL
    /\ upFiles' = <<>>
    /\ upKeys' = <<>>
    /\ upResults' = <<>>
    /\ upResult' = NoResult
    /\ UNCHANGED <<restVars, storeVars, delVars, lsVars>>

\* ---------------------------------------------------------- deleteFiles
\* (variant: the find is not restricted to the rows of the caller)
FindByIdsMutAnyOwner(store, fileIds, userId) ==
    {f \in store : f.id \in Range(fileIds)}

\* fileRepository.find({ where: { id: In(fileIds), user: { id: userId } } })
FindByIds(store, fileIds, userId) ==
    {f \in store : f.id \in Range(fileIds) /\ f.user = userId}

\* (variant: the gate only rejects when no file at all was found)
DeleteOutcomeMutAnyFound(fileIds, files) ==
    IF files = {}
    THEN [kind |-> "NotFound", message |-> "No files found to delete",
          ids |-> <<>>]
    ELSE [kind |-> "proceed", message |-> "", ids |-> <<>>]

\* the validation gate after the find
DeleteOutcome(fileIds, files) ==
    LET foundIds == {f.id : f \in files}
        notFoundIds == SelectSeq(fileIds, LAMBDA id : id \notin foundIds)
    IN  IF files = {}
        THEN [kind |-> "NotFound", message |-> "No files found to delete",
              ids |-> <<>>]
        ELSE IF Len(notFoundIds) > 0
        THEN [kind |-> "NotFound", message |-> "Files not found",
              ids |-> notFoundIds]
        ELSE [kind |-> "proceed", message |-> "", ids |-> <<>>]

\* every url of every found file, reduced to its last path segment
RECURSIVE UrlKeys(_)
UrlKeys(urls) ==
    IF Len(urls) = 0 THEN <<>>
    ELSE (IF FileKeyOfUrl(urls[1]) # NULL
          THEN <<FileKeyOfUrl(urls[1])>> ELSE <<>>) \o UrlKeys(Tail(urls))

RECURSIVE FileKeysToDelete(_)
FileKeysToDelete(files) ==
    IF Len(files) = 0 THEN <<>>
    ELSE UrlKeys(files[1].fileUrls) \o FileKeysToDelete(Tail(files))

DeleteCall(userId, fileIds) ==
    /\ delPc = "idle"
    /\ delCalls < MaxDeletes
    /\ delCalls' = delCalls + 1
    /\ delUser' = userId
    /\ delIds' = fileIds
    /\ IF Len(fileIds) = 0
       THEN /\ delPc' = "failed"
            /\ delResult' = [kind |-> "BadRequest",
                             message |-> "No file IDs provided", ids |-> <<>>]
       ELSE /\ delPc' = "find"
            /\ delResult' = [kind |-> "none", message |-> "", ids |-> <<>>]
    /\ UNCHANGED <<restVars, delFiles, delKeys, delPending, delDone, storeVars, upVars,
                   lsVars>>

\* the find answers; past the gate, every object-store delete is sent
DeleteFind ==
    /\ delPc = "find"
    /\ LET files == FindByIds(fileRepository, delIds, delUser)
           outcome == DeleteOutcome(delIds, files)
           fileKeysToDelete == FileKeysToDelete(OrderDesc(files))
       IN  IF outcome.kind # "proceed"
           THEN /\ delPc' = "failed"
                /\ delResult' = outcome
                /\ UNCHANGED <<delFiles, delKeys, delPending, s3Sent>>
           ELSE /\ delPc' = "deleting"
                /\ delFiles' = files
                /\ delKeys' = fileKeysToDelete
                /\ delPending' = 1..Len(fileKeysToDelete)
                /\ s3Sent' = s3Sent \cup
                       {[cmd |-> "delete", key |-> k] :
                            k \in Range(fileKeysToDelete)}
                /\ UNCHANGED delResult
    /\ UNCHANGED <<restVars, delUser, delIds, delCalls, delDone, fileRepository, bucket,
                   clock, usedIds, uploadSeq, upVars, lsVars>>

\* (variant: a failed delete is not caught and rejects the whole call)
DeleteSettleMutAbort(p, ok) ==
    /\ delPc = "deleting"
    /\ p \in delPending
    /\ delPending' = delPending \ {p}
    /\ bucket' = IF ok THEN bucket \ {delKeys[p]} ELSE bucket
    /\ delPc' = IF ok THEN delPc ELSE "failed"
    /\ delResult' = IF ok THEN delResult
                    ELSE [kind |-> "BadRequest",
                          message |-> "Failed to delete files", ids |-> <<>>]
    /\ UNCHANGED <<restVars, delUser, delIds, delFiles, delKeys, delCalls, delDone,
                   fileRepository, s3Sent, clock, usedIds, uploadSeq, upVars,
                   lsVars>>

\* the delete of one key settles: committed, or failed and caught
DeleteSettle(p, ok) ==
    /\ delPc = "deleting"
    /\ p \in delPending
    /\ delPending' = delPending \ {p}
    /\ bucket' = IF ok THEN bucket \ {delKeys[p]} ELSE bucket
    /\ UNCHANGED <<restVars, delPc, delUser, delIds, delFiles, delKeys, delResult,
                   delCalls, delDone, fileRepository, s3Sent, clock, usedIds,
                   uploadSeq, upVars, lsVars>>

\* (variant: the remove is not preceded by the await of the deletions)
DeleteRemoveMutEarly ==
    /\ delPc = "deleting"
    /\ fileRepository' =
           {f \in fileRepository : f.id \notin {g.id : g \in delFiles}}
    /\ delPc' = "done"
    /\ delResult' = [kind |-> "ok", message |-> "", ids |-> <<>>]
    /\ delDone' = delDone \cup {<<delUser, id>> : id \in Range(delIds)}
    /\ UNCHANGED <<restVars, delUser, delIds, delFiles, delKeys, delPending, delCalls,
                   bucket, s3Sent, clock, usedIds, uploadSeq, upVars, lsVars>>

\* (variant: a soft delete, the rows are kept with status 'deleted')
DeleteRemoveMutSoft ==
    /\ delPc = "deleting"
    /\ delPending = {}
    /\ fileRepository' =
           {IF f.id \in {g.id : g \in delFiles}
            THEN [f EXCEPT !.status = "deleted"] ELSE f : f \in fileRepository}
    /\ delPc' = "done"
    /\ delResult' = [kind |-> "ok", message |-> "", ids |-> <<>>]
    /\ delDone' = delDone \cup {<<delUser, id>> : id \in Range(delIds)}
    /\ UNCHANGED <<restVars, delUser, delIds, delFiles, delKeys, delPending, delCalls,
                   bucket, s3Sent, clock, usedIds, uploadSeq, upVars, lsVars>>

\* (variant: the remove takes every row of the caller)
DeleteRemoveMutOwnerWide ==
    /\ delPc = "deleting"
    /\ delPending = {}
    /\ fileRepository' = {f \in fileRepository : f.user # delUser}
    /\ delPc' = "done"
    /\ delResult' = [kind |-> "ok", message |-> "", ids |-> <<>>]
    /\ delDone' = delDone \cup {<<delUser, id>> : id \in Range(delIds)}
    /\ UNCHANGED <<restVars, delUser, delIds, delFiles, delKeys, delPending, delCalls,
                   bucket, s3Sent, clock, usedIds, uploadSeq, upVars, lsVars>>

\* Promise.allSettled has resolved: fileRepository.remove(files)
DeleteRemove ==
    /\ delPc = "deleting"
    /\ delPending = {}
    /\ fileRepository' =
           {f \in fileRepository : f.id \notin {g.id : g \in delFiles}}
    /\ delPc' = "done"
    /\ delResult' = [kind |-> "ok", message |-> "", ids |-> <<>>]
    /\ delDone' = delDone \cup {<<delUser, id>> : id \in Range(delIds)}
    /\ UNCHANGED <<restVars, delUser, delIds, delFiles, delKeys, delPending, delCalls,
                   bucket, s3Sent, clock, usedIds, uploadSeq, upVars, lsVars>>

\* the response has been sent
DeleteReturn ==
    /\ delPc \in {"done", "failed"}
    /\ delPc' = "idle"
    /\ delUser' = NULL
    /\ delIds' = <<>>
    /\ delFiles' = {}
    /\ delKeys' = <<>>
    /\ delPending' = {}
    /\ delResult' = [kind |-> "none", message |-> "", ids |-> <<>>]
    /\ UNCHANGED <<restVars, delCalls, delDone, storeVars, upVars, lsVars>>

\* ------------------------------------- a second deleteFiles call in flight
\* the same handler run by another request
RivalDeleteCall(userId, fileIds) ==
    /\ d2Pc = "idle"
    /\ d2User' = userId
    /\ d2Ids' = fileIds
    /\ IF Len(fileIds) = 0
       THEN /\ d2Pc' = "failed"
            /\ d2Result' = [kind |-> "BadRequest",
                            message |-> "No file IDs provided", ids |-> <<>>]
       ELSE /\ d2Pc' = "find"
            /\ d2Result' = [kind |-> "none", message |-> "", ids |-> <<>>]
    /\ UNCHANGED <<d2Files, d2Pending, storeVars, upVars, delVars, lsVars,
                   updVars, totVars, plVars, mgVars, rvVars, gfResult,
                   touched>>

RivalDeleteFind ==
    /\ d2Pc = "find"
    /\ LET files == FindByIds(fileRepository, d2Ids, d2User)
           outcome == DeleteOutcome(d2Ids, files)
           fileKeysToDelete == FileKeysToDelete(OrderDesc(files))
       IN  IF outcome.kind # "proceed"
           THEN /\ d2Pc' = "failed"
                /\ d2Result' = outcome
                /\ UNCHANGED <<d2Files, d2Pending, s3Sent>>
           ELSE /\ d2Pc' = "deleting"
                /\ d2Files' = files
                /\ d2Pending' = 1..Len(fileKeysToDelete)
                /\ s3Sent' = s3Sent \cup
                       {[cmd |-> "delete", key |-> k] :
                            k \in Range(fileKeysToDelete)}
                /\ UNCHANGED d2Result
    /\ UNCHANGED <<d2User, d2Ids, fileRepository, bucket, clock, usedIds,
                   uploadSeq, upVars, delVars, lsVars, updVars, totVars,
                   plVars, mgVars, rvVars, gfResult, touched>>

RivalDeleteSettle(p, ok) ==
    /\ d2Pc = "deleting"
    /\ p \in d2Pending
    /\ d2Pending' = d2Pending \ {p}
    /\ bucket' = IF ok
                 THEN bucket \ {FileKeysToDelete(OrderDesc(d2Files))[p]}
                 ELSE bucket
    /\ UNCHANGED <<d2Pc, d2User, d2Ids, d2Files, d2Result, fileRepository,
                   s3Sent, clock, usedIds, uploadSeq, upVars, delVars, lsVars,
                   updVars, totVars, plVars, mgVars, rvVars, gfResult,
                   touched>>

\* fileRepository.remove(files): DELETE by id, whatever rows are left
RivalDeleteRemove ==
    /\ d2Pc = "deleting"
    /\ d2Pending = {}
    /\ fileRepository' =
           {f \in fileRepository : f.id \notin {g.id : g \in d2Files}}
    /\ d2Pc' = "done"
    /\ d2Result' = [kind |-> "ok", message |-> "", ids |-> <<>>]
    /\ UNCHANGED <<d2User, d2Ids, d2Files, d2Pending, bucket, s3Sent, clock,
                   usedIds, uploadSeq, upVars, delVars, lsVars, updVars,
                   totVars, plVars, mgVars, rvVars, gfResult, touched>>

\* ------------------------------------------------- a client paging a list
\* first request of a traversal, with the cursor the client supplies
ListStart(userId, cursor, limit) ==
    /\ lsPc = "idle"
    /\ LET result == GetUserFiles(fileRepository, userId, cursor, limit)
       IN  /\ lsResult' = result
           /\ lsSeen' = result.files
           /\ lsCursor' = result.nextCursor
           /\ lsPc' = IF result.error THEN "error"
                      ELSE IF result.nextCursor = NULL THEN "done"
                      ELSE "paging"
    /\ lsUser' = userId
    /\ lsLimit' = limit
    /\ lsReqCursor' = cursor
    /\ lsStart' = {f \in fileRepository :
                      f.user = userId /\ f.status = "active"}
    /\ UNCHANGED <<restVars, storeVars, upVars, delVars>>

\* next request of the traversal, echoing the nextCursor received
ListNext ==
    /\ lsPc = "paging"
    /\ LET result == GetUserFiles(fileRepository, lsUser, lsCursor, lsLimit)
       IN  /\ lsResult' = result
           /\ lsSeen' = lsSeen \o result.files
           /\ lsCursor' = result.nextCursor
           /\ lsPc' = IF result.error THEN "error"
                      ELSE IF result.nextCursor = NULL THEN "done"
                      ELSE "paging"
    /\ UNCHANGED <<restVars, lsUser, lsLimit, lsReqCursor, lsStart, storeVars, upVars,
                   delVars>>

\* ------------------------------------------------------------ updateFile
\* (variant: the update stamps the row with the epoch, not with now)
updateDatesMutEpoch(file, now) == [file EXCEPT !.updatedAt = 0]

\* File.updateDates (@BeforeUpdate)
updateDates(file, now) == [file EXCEPT !.updatedAt = now]

\* File.createDates (@BeforeInsert)
createDates(file, now) ==
    [file EXCEPT !.createdAt = now,
                 !.updatedAt = now,
                 !.status = IF file.status = "" THEN "active" ELSE file.status]

\* what fileRepository.save(file) leaves in the table: no row of that id
\* inserts the entity, a row equal to the entity is left alone, any other
\* row is updated from the entity after updateDates()
SaveFile(store, file, now) ==
    LET rows == {r \in store : r.id = file.id}
    IN  IF rows = {} THEN store \cup {createDates(file, now)}
        ELSE IF file \in rows THEN store
        ELSE (store \ rows) \cup {updateDates(file, now)}

UpdateCall(fileId, userId, updateDto) ==
    /\ updPc = "idle"
    /\ updCalls < MaxUpdates
    /\ updCalls' = updCalls + 1
    /\ updPc' = "find"
    /\ updUser' = userId
    /\ updId' = fileId
    /\ updDto' = updateDto
    /\ updFile' = NoFile
    /\ updResult' = NoResult
    /\ UNCHANGED <<storeVars, upVars, delVars, lsVars, totVars, plVars,
                   sideVars>>

\* getFileById, then the assignment of the status the body carries
UpdateFind ==
    /\ updPc = "find"
    /\ LET found == {f \in fileRepository : f.id = updId /\ f.user = updUser}
       IN  IF found = {}
           THEN /\ updPc' = "failed"
                /\ updResult' = [kind |-> "NotFound"]
                /\ UNCHANGED updFile
           ELSE /\ updPc' = "save"
                /\ \E file \in found :
                       updFile' = IF updDto.status # UNDEFINED
                                  THEN [file EXCEPT !.status = updDto.status]
                                  ELSE file
                /\ UNCHANGED updResult
    /\ UNCHANGED <<updUser, updId, updDto, updCalls, storeVars, upVars,
                   delVars, lsVars, totVars, plVars,
                   sideVars>>

\* fileRepository.save(file)
UpdateSave ==
    /\ updPc = "save"
    /\ fileRepository' = SaveFile(fileRepository, updFile, clock)
    /\ updPc' = "done"
    /\ updResult' = [kind |-> "ok"]
    /\ touched' = IF lsPc = "paging" /\ fileRepository' # fileRepository
                  THEN touched \cup {updFile.id} ELSE touched
    /\ UNCHANGED <<updUser, updId, updDto, updFile, updCalls, bucket, s3Sent,
                   clock, usedIds, uploadSeq, upVars, delVars, lsVars,
                   totVars, plVars, mgVars, d2Vars, rvVars, gfResult>>

UpdateReturn ==
    /\ updPc \in {"done", "failed"}
    /\ updPc' = "idle"
    /\ UNCHANGED <<updUser, updId, updDto, updFile, updResult, updCalls,
                   storeVars, upVars, delVars, lsVars, totVars, plVars,
                   sideVars>>

\* GET /files/total
TotalCall(userId) ==
    /\ totResult' = [user |-> userId,
                     count |-> getTotalFilesCount(fileRepository, userId)]
    /\ UNCHANGED <<storeVars, upVars, delVars, lsVars, updVars, plVars,
                   sideVars>>

\* GET /files/:id
GetFileCall(fileId, userId) ==
    /\ LET found == {f \in fileRepository : f.id = fileId /\ f.user = userId}
       IN  gfResult' = IF found = {}
                       THEN [kind |-> "NotFound", message |-> "File not found"]
                       ELSE [kind |-> "ok", file |-> CHOOSE f \in found : TRUE]
    /\ UNCHANGED <<storeVars, upVars, delVars, lsVars, updVars, totVars,
                   plVars, mgVars, d2Vars, rvVars, touched>>

\* ------------------------------------------------------------- mergeFiles
\* the orders in which a find without ORDER BY may hand back its rows
Orderings(files) ==
    {order \in [1..Cardinality(files) -> files] :
        \A i, j \in 1..Cardinality(files) : i # j => order[i] # order[j]}

\* allFileUrls: the fileUrls of the found files, in the order of the rows
RECURSIVE AllFileUrls(_)
AllFileUrls(files) ==
    IF Len(files) = 0 THEN <<>>
    ELSE files[1].fileUrls \o AllFileUrls(Tail(files))

\* the validation of mergeFiles after its find
MergeOutcome(fileIds, files) ==
    LET foundIds == {files[i].id : i \in 1..Len(files)}
        notFoundIds == SelectSeq(fileIds, LAMBDA id : id \notin foundIds)
    IN  IF Len(files) = 0
        THEN [kind |-> "NotFound", message |-> "No files found",
              ids |-> <<>>]
        ELSE IF Len(notFoundIds) > 0
        THEN [kind |-> "NotFound", message |-> "Files not found",
              ids |-> notFoundIds]
        ELSE IF Len(AllFileUrls(files)) = 0
        THEN [kind |-> "BadRequest",
              message |-> "No image URLs found in files to merge",
              ids |-> <<>>]
        ELSE [kind |-> "proceed", message |-> "", ids |-> <<>>]

\* (variant: the thumbnail is taken from the last source file)
MergedFileMutLastThumb(id, userId, files, now) ==
    [id |-> id,
     user |-> userId,
     fileUrls |-> AllFileUrls(files),
     fileName |-> files[1].fileName,
     thumbnailUrl |-> files[Len(files)].thumbnailUrl,
     status |-> "active",
     createdAt |-> now,
     updatedAt |-> now]

\* fileRepository.create({...}) of mergeFiles and File.createDates
MergedFile(id, userId, files, now) ==
    LET firstFile == files[1]
        firstFileUrl == AllFileUrls(files)[1]
    IN  [id |-> id,
         user |-> userId,
         fileUrls |-> AllFileUrls(files),
         fileName |-> firstFile.fileName,
         thumbnailUrl |-> IF firstFile.thumbnailUrl # NULL
                          THEN firstFile.thumbnailUrl ELSE firstFileUrl,
         status |-> "active",
         createdAt |-> now,
         updatedAt |-> now]

MergeCall(userId, fileIds) ==
    /\ mgPc = "idle"
    /\ mgCalls < MaxMerges
    /\ mgCalls' = mgCalls + 1
    /\ mgUser' = userId
    /\ mgIds' = fileIds
    /\ mgFiles' = <<>>
    /\ IF Len(fileIds) = 0
       THEN /\ mgPc' = "failed"
            /\ mgResult' = [kind |-> "BadRequest",
                            message |-> "No file IDs provided", ids |-> <<>>]
       ELSE /\ mgPc' = "find"
            /\ mgResult' = NoResult
    /\ UNCHANGED <<storeVars, upVars, delVars, lsVars, updVars, totVars,
                   plVars, d2Vars, rvVars, gfResult, touched>>

\* the find of the caller's files and the checks on what it found
MergeFind ==
    /\ mgPc = "find"
    /\ \E files \in Orderings(FindByIds(fileRepository, mgIds, mgUser)) :
          LET outcome == MergeOutcome(mgIds, files)
          IN  IF outcome.kind = "proceed"
              THEN /\ mgPc' = "findUser"
                   /\ mgFiles' = files
                   /\ UNCHANGED mgResult
              ELSE /\ mgPc' = "failed"
                   /\ mgResult' = outcome
                   /\ UNCHANGED mgFiles
    /\ UNCHANGED <<mgUser, mgIds, mgCalls, storeVars, upVars, delVars,
                   lsVars, updVars, totVars, plVars, d2Vars, rvVars,
                   gfResult, touched>>

MergeFindUser ==
    /\ mgPc = "findUser"
    /\ IF mgUser \in KnownUsers
       THEN /\ mgPc' = "save"
            /\ UNCHANGED mgResult
       ELSE /\ mgPc' = "failed"
            /\ mgResult' = [kind |-> "NotFound",
                            message |-> "User not found", ids |-> <<>>]
    /\ UNCHANGED <<mgUser, mgIds, mgFiles, mgCalls, storeVars, upVars,
                   delVars, lsVars, updVars, totVars, plVars, d2Vars,
                   rvVars, gfResult, touched>>

\* fileRepository.save(mergedFile)
MergeSave ==
    /\ mgPc = "save"
    /\ \E id \in IdPool \ usedIds :
          /\ usedIds' = usedIds \cup {id}
          /\ fileRepository' =
                 fileRepository \cup {MergedFile(id, mgUser, mgFiles, clock)}
          /\ mgResult' = [kind |-> "ok", id |-> id]
    /\ mgPc' = "done"
    /\ UNCHANGED <<mgUser, mgIds, mgFiles, mgCalls, bucket, s3Sent, clock,
                   uploadSeq, upVars, delVars, lsVars, updVars, totVars,
                   plVars, d2Vars, rvVars, gfResult, touched>>

\* the response has been sent
MergeReturn ==
    /\ mgPc \in {"done", "failed"}
    /\ mgPc' = "idle"
    /\ mgUser' = NULL
    /\ mgIds' = <<>>
    /\ mgFiles' = <<>>
    /\ mgResult' = NoResult
    /\ UNCHANGED <<mgCalls, storeVars, upVars, delVars, lsVars, updVars,
                   totVars, plVars, d2Vars, rvVars, gfResult, touched>>

\* ------------------------------------------------- transform pipelines
\* FilesService.convertToPdf / convertToScan and MediaService
\* uploadFileScanner / extractDocumentFromBackground.  A buffer is
\* [of, bytes]: what it holds and whether it holds any byte (0 or 1).  A
\* file under os.tmpdir() is [path, bytes].
ScannerOps == {"uploadFileScanner", "extractDocumentFromBackground"}
ConvertOps == {"convertToPdf", "convertToScan"}

allowedImageMimeTypes ==
    {"image/jpeg", "image/jpg", "image/png", "image/gif", "image/webp",
     "image/bmp"}

\* MediaService.allowedMimeTypes, as far as the pipelines meet it
mediaAllowedMimeTypes ==
    allowedImageMimeTypes \cup {"image/svg+xml", "application/pdf",
                                "text/plain", "text/csv"}

\* path.join(os.tmpdir(), `${prefix}-${Date.now()}...`)
TmpPath(prefix, now) == [dir |-> "tmp", name |-> prefix, at |-> now]

\* fs.mkdtempSync(path.join(os.tmpdir(), prefix)) and a file inside it
TempDir(op) ==
    [dir |-> IF op = "convertToPdf" THEN "pdf-process-" ELSE "scan-process-",
     name |-> "", at |-> 0]
PdfPath(op) ==
    [TempDir(op) EXCEPT
        !.name = IF op = "convertToPdf" THEN "merged.pdf"
                 ELSE "merged_scan.pdf"]

Exists(fs, path) == \E f \in fs : f.path = path
BytesOf(fs, path) == (CHOOSE f \in fs : f.path = path).bytes

\* fs.writeFileSync(path, buffer) and what a process writing path leaves
WriteFile(fs, path, bytes) ==
    {f \in fs : f.path # path} \cup {[path |-> path, bytes |-> bytes]}

\* (variant: only the input file is unlinked)
StageCleanupMutInputOnly(fs, stage) ==
    {f \in fs : f.path # stage.input}

\* if (existsSync(tempInputPath)) unlinkSync(...); the same for outputPath
StageCleanup(fs, stage) ==
    {f \in fs : f.path \notin {stage.input, stage.output}}

\* fs.rmSync(tempDir, { recursive: true, force: true })
RemoveTempDir(fs, op) == {f \in fs : f.path.dir # TempDir(op).dir}

\* the stage functions of MediaService, in the order uploadFileScanner and
\* extractDocumentFromBackground call them
ExtractStage(now) ==
    [name |-> "extract", input |-> TmpPath("extract-input", now),
     output |-> TmpPath("extracted", now), timeout |-> FALSE]
ScanStage(now) ==
    [name |-> "scan", input |-> TmpPath("input", now),
     output |-> TmpPath("scanned", now), timeout |-> FALSE]
\* execAsync(..., { timeout: 120000 }) of the convert operations
MergeStage(op) ==
    [name |-> "merge", input |-> NoPath, output |-> PdfPath(op),
     timeout |-> TRUE]

\* what the buffer read from the output of a stage holds
Produced(stage) ==
    IF stage.name = "extract" THEN "extracted"
    ELSE IF stage.name = "scan" THEN "scanned" ELSE "merged"

\* (variant: a rejected exec is ignored when the output file exists)
StageFailedMutMissingOnly(proc, exists) == ~exists

\* the exec promise rejected, or existsSync(outputPath) false
StageFailed(proc, exists) == proc # "ok" \/ ~exists

\* `${userId}-${timestamp}-${randomString}.${ext}`: no index part (-1)
PipelineFileName(userId, seq, ext) == <<userId, seq, 0 - 1, ext>>

PipelineExt(op) ==
    IF op = "extractDocumentFromBackground" THEN "png"
    ELSE IF op = "convertToScan" THEN "scan.pdf" ELSE "pdf"

PipelineMime(op) ==
    IF op = "extractDocumentFromBackground" THEN "image/png"
    ELSE "application/pdf"

\* the record uploadFile saves for the transformed artifact
TransformedMedia(id, userId, op, file, key) ==
    [id |-> id, user |-> userId, fileUrl |-> UrlOf(key),
     fileName |-> <<IF op = "uploadFileScanner" THEN "scanned"
                    ELSE "extracted", file.originalname[1], PipelineExt(op)>>,
     mimeType |-> PipelineMime(op), status |-> "active"]

\* the metadata-only record of the original image: fileUrl ''
OriginalMedia(id, userId, file) ==
    [id |-> id, user |-> userId, fileUrl |-> NULL,
     fileName |-> file.originalname, mimeType |-> file.mimetype,
     status |-> "active"]

LogStage(log, name, exit) ==
    Append(log, [name |-> name, exit |-> exit, out |-> "none"])
LogExit(log, exit, out) ==
    [log EXCEPT ![Len(log)] = [@ EXCEPT !.exit = exit, !.out = out]]

PipelineFail(kind) == [kind |-> kind]

\* uploadFileScanner / extractDocumentFromBackground up to the user lookup
ScannerCall(op, userId, file) ==
    /\ plPc = "idle"
    /\ plOp' = op
    /\ plUser' = userId
    /\ plFile' = file
    /\ IF file = NoFile
       THEN plPc' = "failed" /\ plResult' = PipelineFail("BadRequest")
       ELSE IF file.mimetype \notin allowedImageMimeTypes
       THEN plPc' = "failed" /\ plResult' = PipelineFail("BadRequest")
       ELSE plPc' = "findUser" /\ plResult' = NoResult
    /\ UNCHANGED <<mediaRepository, tmpFiles, plPuts, plStages, plStage,
                   plProc, plBuffer, storeVars, upVars, delVars, lsVars,
                   updVars, totVars,
                   sideVars>>

\* userRepository.findOne resolves; the extract stage is entered
ScannerFindUser ==
    /\ plPc = "findUser"
    /\ IF plUser \notin KnownUsers
       THEN /\ plPc' = "failed"
            /\ plResult' = PipelineFail("NotFound")
            /\ UNCHANGED <<plStage, plBuffer>>
       ELSE /\ plPc' = "detect"
            /\ plStage' = ExtractStage(clock)
            /\ plBuffer' = [of |-> "original", bytes |-> 1]
            /\ UNCHANGED plResult
    /\ UNCHANGED <<mediaRepository, tmpFiles, plPuts, plStages, plOp, plUser,
                   plFile, plProc, storeVars, upVars, delVars, lsVars,
                   updVars, totVars,
                   sideVars>>

\* detectPythonCommand() settles: the input is written and the process is
\* started, or the catch block of the stage runs
detectPythonCommand(found) ==
    /\ plPc = "detect"
    /\ IF found
       THEN /\ tmpFiles' = WriteFile(tmpFiles, plStage.input, plBuffer.bytes)
            /\ plProc' = "running"
            /\ plPc' = "exec"
            /\ plStages' = LogStage(plStages, plStage.name, "running")
            /\ UNCHANGED plResult
       ELSE /\ tmpFiles' = StageCleanup(tmpFiles, plStage)
            /\ plPc' = "failed"
            /\ plResult' = PipelineFail("BadRequest")
            /\ plStages' = LogStage(plStages, plStage.name, "nopython")
            /\ UNCHANGED plProc
    /\ UNCHANGED <<mediaRepository, plPuts, plOp, plUser, plFile, plStage,
                   plBuffer, storeVars, upVars, delVars, lsVars, updVars,
                   totVars, sideVars>>

\* convertToPdf / convertToScan up to the record lookup
ConvertCall(op, fileId, userId) ==
    /\ plPc = "idle"
    /\ plOp' = op
    /\ plUser' = userId
    /\ plFile' = [id |-> fileId]
    /\ plPc' = "findFile"
    /\ plResult' = NoResult
    /\ UNCHANGED <<mediaRepository, tmpFiles, plPuts, plStages, plStage,
                   plProc, plBuffer, storeVars, upVars, delVars, lsVars,
                   updVars, totVars,
                   sideVars>>

\* fileRepository.findOne resolves; mkdtempSync; the merge process starts
ConvertFind ==
    /\ plPc = "findFile"
    /\ LET found == {f \in fileRepository :
                        f.id = plFile.id /\ f.user = plUser}
       IN  IF found = {}
           THEN /\ plPc' = "failed"
                /\ plResult' = PipelineFail("NotFound")
                /\ UNCHANGED <<tmpFiles, plStages, plStage, plProc>>
           ELSE IF \A f \in found : Len(f.fileUrls) = 0
           THEN /\ plPc' = "failed"
                /\ plResult' = PipelineFail("BadRequest")
                /\ UNCHANGED <<tmpFiles, plStages, plStage, plProc>>
           ELSE /\ tmpFiles' = WriteFile(tmpFiles, TempDir(plOp), 0)
                /\ plStage' = MergeStage(plOp)
                /\ plProc' = "running"
                /\ plPc' = "exec"
                /\ plStages' = LogStage(plStages, "merge", "running")
                /\ UNCHANGED plResult
    /\ UNCHANGED <<mediaRepository, plPuts, plOp, plUser, plFile, plBuffer,
                   storeVars, upVars, delVars, lsVars, updVars, totVars,
                   sideVars>>

\* the stage process ends by itself: exit code 0 or not, having written
\* no output file, an empty one or a full one
ProcExit(ok, out) ==
    /\ plProc = "running"
    /\ plProc' = IF ok THEN "ok" ELSE "error"
    /\ tmpFiles' = IF out = "none" THEN tmpFiles
                   ELSE WriteFile(tmpFiles, plStage.output,
                                  IF out = "full" THEN 1 ELSE 0)
    /\ plStages' = LogExit(plStages, IF ok THEN "ok" ELSE "error", out)
    /\ UNCHANGED <<mediaRepository, plPuts, plPc, plOp, plUser, plFile,
                   plStage, plBuffer, plResult, storeVars, upVars, delVars,
                   lsVars, updVars, totVars,
                   sideVars>>

\* the timeout of exec fires: the child is killed, the promise rejects
ExecTimeout(out) ==
    /\ plProc = "running"
    /\ plStage.timeout
    /\ plProc' = "killed"
    /\ tmpFiles' = IF out = "none" THEN tmpFiles
                   ELSE WriteFile(tmpFiles, plStage.output, 0)
    /\ plStages' = LogExit(plStages, "killed", out)
    /\ UNCHANGED <<mediaRepository, plPuts, plPc, plOp, plUser, plFile,
                   plStage, plBuffer, plResult, storeVars, upVars, delVars,
                   lsVars, updVars, totVars,
                   sideVars>>

\* what a request answers when an unlinkSync of a stage throws
CleanupError == [kind |-> "BadRequest", cause |-> "unlink"]

\* the code after `await execAsync(...)` up to the next await; cleanupOk:
\* whether the file system lets the temporary files be removed.  A stage of
\* MediaService unlinks inside its try and again, unguarded, in its catch;
\* convertToPdf / convertToScan remove their directory in a finally that
\* swallows
StageReturn(cleanupOk) ==
    /\ plPc = "exec"
    /\ plProc \in {"ok", "error", "killed"}
    /\ plProc' = "none"
    /\ LET failed == StageFailed(plProc, Exists(tmpFiles, plStage.output))
           last == plOp \in ConvertOps
                   \/ plOp = "extractDocumentFromBackground"
                   \/ plStage.name = "scan"
           unlinkThrows == /\ ~cleanupOk
                           /\ plOp \notin ConvertOps
                           /\ \/ Exists(tmpFiles, plStage.input)
                              \/ Exists(tmpFiles, plStage.output)
       IN  IF unlinkThrows
           THEN /\ plPc' = "failed"
                /\ plResult' = CleanupError
                /\ UNCHANGED <<tmpFiles, plStage, plBuffer>>
           ELSE IF failed
           THEN /\ plPc' = "failed"
                /\ plResult' = PipelineFail("BadRequest")
                /\ tmpFiles' = IF plOp \notin ConvertOps
                               THEN StageCleanup(tmpFiles, plStage)
                               ELSE IF cleanupOk
                               THEN RemoveTempDir(tmpFiles, plOp)
                               ELSE tmpFiles
                /\ UNCHANGED <<plStage, plBuffer>>
           ELSE /\ plBuffer' = [of |-> Produced(plStage),
                                bytes |-> BytesOf(tmpFiles, plStage.output)]
                /\ tmpFiles' = IF plOp \in ConvertOps THEN tmpFiles
                               ELSE StageCleanup(tmpFiles, plStage)
                /\ plPc' = IF plOp \in ConvertOps THEN "put"
                           ELSE IF last THEN "uploadFind" ELSE "detect"
                /\ plStage' = IF last THEN plStage ELSE ScanStage(clock)
                /\ UNCHANGED plResult
    /\ UNCHANGED <<mediaRepository, plPuts, plStages, plOp, plUser, plFile,
                   storeVars, upVars, delVars, lsVars, updVars, totVars,
                   sideVars>>

\* MediaService.uploadFile of the transformed file, up to the put
UploadFileFindUser ==
    /\ plPc = "uploadFind"
    /\ IF PipelineMime(plOp) \notin mediaAllowedMimeTypes
       THEN plPc' = "failed" /\ plResult' = PipelineFail("BadRequest")
       ELSE IF plUser \notin KnownUsers
       THEN plPc' = "failed" /\ plResult' = PipelineFail("BadRequest")
       ELSE plPc' = "put" /\ UNCHANGED plResult
    /\ UNCHANGED <<mediaRepository, tmpFiles, plPuts, plStages, plOp, plUser,
                   plFile, plStage, plProc, plBuffer, storeVars, upVars,
                   delVars, lsVars, updVars, totVars,
                   sideVars>>

\* s3Client.send(new PutObjectCommand(...)) settles; for the convert
\* operations the finally block follows
PipelinePut(ok, cleanupOk) ==
    /\ plPc = "put"
    /\ LET key == PipelineFileName(plUser, uploadSeq, PipelineExt(plOp))
       IN  /\ s3Sent' = s3Sent \cup {[cmd |-> "put", key |-> key]}
           /\ bucket' = IF ok THEN bucket \cup {key} ELSE bucket
           /\ plPuts' = Append(plPuts, [key |-> key, body |-> plBuffer.of,
                                        bytes |-> plBuffer.bytes, ok |-> ok])
           /\ plResult' = IF ~ok THEN PipelineFail("BadRequest")
                          ELSE IF plOp \in ConvertOps
                          THEN [kind |-> "ok", url |-> UrlOf(key)]
                          ELSE plResult
    /\ uploadSeq' = uploadSeq + 1
    /\ plPc' = IF ~ok THEN "failed"
               ELSE IF plOp \in ConvertOps THEN "done" ELSE "saveScanned"
    /\ tmpFiles' = IF plOp \in ConvertOps /\ cleanupOk
                   THEN RemoveTempDir(tmpFiles, plOp)
                   ELSE tmpFiles
    /\ UNCHANGED <<mediaRepository, plStages, plOp, plUser, plFile, plStage,
                   plProc, plBuffer, fileRepository, clock, usedIds, upVars,
                   delVars, lsVars, updVars, totVars,
                   sideVars>>

\* mediaRepository.save(media) of uploadFile settles
SaveScanned(ok) ==
    /\ plPc = "saveScanned"
    /\ IF ok
       THEN /\ \E id \in IdPool \ usedIds :
                 /\ mediaRepository' = mediaRepository \cup
                        {TransformedMedia(id, plUser, plOp, plFile,
                                          plPuts[Len(plPuts)].key)}
                 /\ usedIds' = usedIds \cup {id}
            /\ plPc' = "saveOriginal"
            /\ UNCHANGED plResult
       ELSE /\ plPc' = "failed"
            /\ plResult' = PipelineFail("BadRequest")
            /\ UNCHANGED <<mediaRepository, usedIds>>
    /\ UNCHANGED <<tmpFiles, plPuts, plStages, plOp, plUser, plFile, plStage,
                   plProc, plBuffer, fileRepository, bucket, s3Sent, clock,
                   uploadSeq, upVars, delVars, lsVars, updVars, totVars,
                   sideVars>>

\* mediaRepository.save(originalMedia) settles
SaveOriginal(ok) ==
    /\ plPc = "saveOriginal"
    /\ IF ok
       THEN /\ \E id \in IdPool \ usedIds :
                 /\ mediaRepository' = mediaRepository \cup
                        {OriginalMedia(id, plUser, plFile)}
                 /\ usedIds' = usedIds \cup {id}
            /\ plPc' = "done"
            /\ plResult' = [kind |-> "ok"]
       ELSE /\ plPc' = "failed"
            /\ plResult' = PipelineFail("BadRequest")
            /\ UNCHANGED <<mediaRepository, usedIds>>
    /\ UNCHANGED <<tmpFiles, plPuts, plStages, plOp, plUser, plFile, plStage,
                   plProc, plBuffer, fileRepository, bucket, s3Sent, clock,
                   uploadSeq, upVars, delVars, lsVars, updVars, totVars,
                   sideVars>>

\* ------------------------------------ a second scanner request in flight
\* the extract stage of another uploadFileScanner request: its paths are
\* taken when it enters the stage
RivalStageEnter ==
    /\ rvPc = "idle"
    /\ rvPc' = "detect"
    /\ rvStage' = ExtractStage(clock)
    /\ UNCHANGED <<rvProc, storeVars, upVars, delVars, lsVars, updVars,
                   totVars, plVars, mgVars, d2Vars, gfResult, touched>>

\* its detectPythonCommand() settles: the input is written, the process
\* started
RivalStageStart ==
    /\ rvPc = "detect"
    /\ rvPc' = "exec"
    /\ rvProc' = "running"
    /\ tmpFiles' = WriteFile(tmpFiles, rvStage.input, 1)
    /\ UNCHANGED <<rvStage, mediaRepository, plPuts, plStages, plPc, plOp,
                   plUser, plFile, plStage, plProc, plBuffer, plResult,
                   storeVars, upVars, delVars, lsVars, updVars, totVars,
                   mgVars, d2Vars, gfResult, touched>>

\* its process exits
RivalProcExit(ok, out) ==
    /\ rvProc = "running"
    /\ rvProc' = IF ok THEN "ok" ELSE "error"
    /\ tmpFiles' = IF out = "none" THEN tmpFiles
                   ELSE WriteFile(tmpFiles, rvStage.output,
                                  IF out = "full" THEN 1 ELSE 0)
    /\ UNCHANGED <<rvPc, rvStage, mediaRepository, plPuts, plStages, plPc,
                   plOp, plUser, plFile, plStage, plProc, plBuffer, plResult,
                   storeVars, upVars, delVars, lsVars, updVars, totVars,
                   mgVars, d2Vars, gfResult, touched>>

\* its stage returns or throws: either way both paths are unlinked
RivalStageReturn ==
    /\ rvPc = "exec"
    /\ rvProc \in {"ok", "error"}
    /\ rvPc' = "done"
    /\ rvProc' = "none"
    /\ tmpFiles' = StageCleanup(tmpFiles, rvStage)
    /\ UNCHANGED <<rvStage, mediaRepository, plPuts, plStages, plPc, plOp,
                   plUser, plFile, plStage, plProc, plBuffer, plResult,
                   storeVars, upVars, delVars, lsVars, updVars, totVars,
                   mgVars, d2Vars, gfResult, touched>>

\* --------------------------------------------------------------- time
Tick ==
    /\ clock < ClockBase + MaxClock
    /\ clock' = clock + 1
    /\ UNCHANGED <<restVars, fileRepository, bucket, s3Sent, usedIds, uploadSeq, upVars,
                   delVars, lsVars>>

\* ------------------------------------------------------ initial states
\* a record as a successful uploadFiles call number j leaves it
SeedFile(j, userId, nKeys, now, status) ==
    [NewFileEntity(IdSeq[j], userId,
                   [i \in 1..nKeys |->
                       UploadValue([k \in 1..nKeys |-> PngItem],
                                   [k \in 1..nKeys |->
                                       StoredFileName(userId, j, k - 1,
                                                      PngItem.originalname)],
                                   i)],
                   now)
     EXCEPT !.status = status]

InitProcesses ==
    /\ upPc = "idle" /\ upUser = NULL /\ upFiles = <<>> /\ upKeys = <<>>
    /\ upResults = <<>> /\ upResult = NoResult
    /\ delPc = "idle" /\ delUser = NULL /\ delIds = <<>> /\ delFiles = {}
    /\ delKeys = <<>> /\ delPending = {}
    /\ delResult = [kind |-> "none", message |-> "", ids |-> <<>>]
    /\ delCalls = 0 /\ delDone = {}
    /\ lsPc = "idle" /\ lsUser = NULL /\ lsLimit = 0 /\ lsReqCursor = NULL
    /\ lsCursor = NULL /\ lsSeen = <<>> /\ lsStart = {}
    /\ lsResult = [error |-> FALSE, files |-> <<>>, nextCursor |-> NULL,
                   fetch |-> 0]
    /\ updPc = "idle" /\ updUser = NULL /\ updId = NULL
    /\ updDto = [status |-> UNDEFINED] /\ updFile = NoFile
    /\ updResult = NoResult /\ updCalls = 0
    /\ totResult = [user |-> "", count |-> 0]
    /\ mediaRepository = {}
    /\ tmpFiles = {}
    /\ plPuts = <<>>
    /\ plStages = <<>>
    /\ plPc = "idle" /\ plOp = "" /\ plUser = NULL /\ plFile = NoFile
    /\ plStage = NoStage /\ plProc = "none" /\ plBuffer = NoBuffer
    /\ plResult = NoResult
    /\ mgPc = "idle" /\ mgUser = NULL /\ mgIds = <<>> /\ mgFiles = <<>>
    /\ mgResult = NoResult /\ mgCalls = 0
    /\ d2Pc = "idle" /\ d2User = NULL /\ d2Ids = <<>> /\ d2Files = {}
    /\ d2Pending = {}
    /\ d2Result = [kind |-> "none", message |-> "", ids |-> <<>>]
    /\ rvPc = "idle" /\ rvStage = NoStage /\ rvProc = "none"
    /\ gfResult = NoResult
    /\ touched = {}

InitStore(files) ==
    /\ fileRepository = files
    /\ bucket = UNION {{FileKeyOfUrl(f.fileUrls[i]) : i \in 1..Len(f.fileUrls)}
                          : f \in files}
    /\ s3Sent = {[cmd |-> "put", key |-> k] : k \in bucket}
    /\ usedIds = {f.id : f \in files}
    /\ uploadSeq = Cardinality(files)

\* the service on empty stores, or on stores holding the one-key record
\* that an earlier upload of either user left
InitUpload ==
    /\ \E n \in 0..1 :
       \E userId \in KnownUsers :
          InitStore({SeedFile(j, userId, 1, ClockBase, "active") : j \in 1..n})
    /\ clock = ClockBase
    /\ InitProcesses

\* stores holding up to MaxStored records that earlier uploads left, with
\* one or two keys each, at most one of them of the second user
InitDelete ==
    /\ \E n \in 0..MaxStored :
       \E other \in 0..n :
       \E nKeys \in [1..n -> 1..2] :
          InitStore({SeedFile(j, IF j = other THEN "u2" ELSE "u1", nKeys[j],
                              ClockBase, "active") : j \in 1..n})
    /\ clock = ClockBase
    /\ InitProcesses

\* stores holding up to MaxSeed one-key records written at either of two
\* instants (ids are not in time order), at most one of them of the second
\* user and at most one switched off by an updateFile in its first instant
InitList ==
    /\ \E n \in 0..MaxSeed :
       \E other \in 0..n :
       \E off \in 0..n :
       \E at \in [1..n -> {ClockBase + 1, ClockBase + 2}] :
          InitStore({SeedFile(j, IF j = other THEN "u2" ELSE "u1", 1, at[j],
                              IF j = off THEN "deleted" ELSE "active")
                        : j \in 1..n})
    /\ clock = ClockBase + 2
    /\ InitProcesses

\* ------------------------------------------------------ request inputs
RECURSIVE SeqsUpTo(_, _)
SeqsUpTo(S, n) ==
    IF n = 0 THEN {<<>>}
    ELSE LET shorter == SeqsUpTo(S, n - 1)
         IN  shorter \cup {Append(q, x) : q \in shorter, x \in S}

UploadInputs == SeqsUpTo(Items, MaxFiles)

\* position of an id in the order of the uuid type
IdRank(id) == IF id = GhostId THEN Len(IdSeq) + 1
              ELSE CHOOSE k \in 1..Len(IdSeq) : IdSeq[k] = id

\* deleteFiles requests: up to MaxDeleteIds ids, repeated ids included, of
\* records that may exist and of a record that never does; the order of
\* the ids in a request only orders the ids an error names
DeleteInputs ==
    {q \in SeqsUpTo({IdSeq[k] : k \in 1..(MaxStored + 1)} \cup {GhostId},
                    MaxDeleteIds) :
        \A i \in 1..(Len(q) - 1) : IdRank(q[i]) <= IdRank(q[i + 1])}
Limits == 0..MaxLimit

\* deleteFiles requests made while a list is being paged: one record each
ListDeleteInputs == {<<id>> : id \in IdPool}

Text(t, id) == NumToStr(t) \o <<CH_UNDERSCORE>> \o id

\* cursors a client may send that no getUserFiles produced on this store
ForeignCursors ==
    {<<33, 33>>,                                 \* "!!": no base64 character
     ToBase64(<<120, 121>>),                     \* "xy": no underscore
     ToBase64(<<CH_UNDERSCORE>> \o IdSeq[1]),    \* "_1a": empty updatedAt
     ToBase64(<<120, CH_UNDERSCORE, 121>>),      \* "x_y": updatedAt no number
     ToBase64(Text(ClockBase + 1, <<122, 122>>)),\* "9_zz": id no uuid
     ToBase64(Text(ClockBase + 1, GhostId))}     \* "9_ff": id of no record

\* ------------------------------------------------------ specifications
NextUpload ==
    \/ \E userId \in Callers, files \in UploadInputs : UploadCall(userId, files)
    \/ UploadFindUser
    \/ \E i \in 1..MaxFiles, ok \in BOOLEAN : PutSettle(i, ok)
    \/ UploadSave
    \/ Tick

SpecUpload == InitUpload /\ [][NextUpload]_vars

NextDelete ==
    \/ \E userId \in Callers, fileIds \in DeleteInputs :
           DeleteCall(userId, fileIds)
    \/ DeleteFind
    \/ \E p \in 1..(2 * MaxStored), ok \in BOOLEAN : DeleteSettle(p, ok)
    \/ DeleteRemove
    \/ DeleteReturn

SpecDelete == InitDelete /\ [][NextDelete]_vars

NextList ==
    \/ \E userId \in KnownUsers, limit \in Limits :
           ListStart(userId, NULL, limit)
    \/ ListNext
    \/ \E userId \in KnownUsers, fileIds \in ListDeleteInputs :
           DeleteCall(userId, fileIds)
    \/ DeleteFind
    \/ DeleteSettle(1, TRUE)
    \/ DeleteRemove
    \/ DeleteReturn

SpecList == InitList /\ [][NextList]_vars

NextCursor ==
    \/ \E userId \in KnownUsers, limit \in Limits \cup {LimitMax + 1},
          cursor \in ForeignCursors \cup {NULL} :
           ListStart(userId, cursor, limit)
    \/ ListNext

SpecCursor == InitList /\ [][NextCursor]_vars

\* updateFile bodies: a status, or none
UpdateInputs == {[status |-> st] : st \in {"active", "deleted", UNDEFINED}}

\* stores holding up to MaxKept active one-key records of the first user,
\* written in the instant the scenario starts
InitStatus ==
    /\ \E n \in 1..MaxKept :
          InitStore({SeedFile(j, "u1", 1, ClockBase, "active") : j \in 1..n})
    /\ clock = ClockBase
    /\ InitProcesses

NextStatus ==
    \/ \E fileId \in {IdSeq[k] : k \in 1..MaxKept}, userId \in KnownUsers,
          updateDto \in UpdateInputs :
           UpdateCall(fileId, userId, updateDto)
    \/ UpdateFind
    \/ UpdateSave
    \/ UpdateReturn
    \/ \E limit \in Limits : ListStart("u1", NULL, limit)
    \/ ListNext
    \/ TotalCall("u1")
    \/ Tick

SpecStatus == InitStatus /\ [][NextStatus]_vars

\* a store holding one record of either user; no media row, no temporary
\* file
InitPipeline ==
    /\ \E userId \in KnownUsers :
          InitStore({SeedFile(1, userId, 1, ClockBase, "active")})
    /\ clock = ClockBase
    /\ InitProcesses

ScannerInputs == {PngItem, PdfItem, NoFile}
ConvertInputs == {IdSeq[1], GhostId}
ProcOutputs == {"none", "empty", "full"}

NextPipeline ==
    \/ \E op \in ScannerOps, userId \in Callers, file \in ScannerInputs :
           ScannerCall(op, userId, file)
    \/ ScannerFindUser
    \/ \E found \in BOOLEAN : detectPythonCommand(found)
    \/ \E op \in ConvertOps, fileId \in ConvertInputs, userId \in Callers :
           ConvertCall(op, fileId, userId)
    \/ ConvertFind
    \/ \E ok \in BOOLEAN, out \in ProcOutputs : ProcExit(ok, out)
    \/ \E out \in ProcOutputs \ {"full"} : ExecTimeout(out)
    \/ StageReturn(TRUE)
    \/ UploadFileFindUser
    \/ \E ok \in BOOLEAN : PipelinePut(ok, TRUE)
    \/ \E ok \in BOOLEAN : SaveScanned(ok)
    \/ \E ok \in BOOLEAN : SaveOriginal(ok)
    \/ Tick

SpecPipeline == InitPipeline /\ [][NextPipeline]_vars

\* what the runtime and the stores are bound to do once it is enabled:
\* every step but the end of a stage process by itself
PipelineProgress ==
    \/ ScannerFindUser
    \/ \E found \in BOOLEAN : detectPythonCommand(found)
    \/ ConvertFind
    \/ \E out \in ProcOutputs \ {"full"} : ExecTimeout(out)
    \/ StageReturn(TRUE)
    \/ UploadFileFindUser
    \/ \E ok \in BOOLEAN : PipelinePut(ok, TRUE)
    \/ \E ok \in BOOLEAN : SaveScanned(ok)
    \/ \E ok \in BOOLEAN : SaveOriginal(ok)

SpecPipelineLive == SpecPipeline /\ WF_vars(PipelineProgress)

\* one pipeline request on a file system that may refuse to remove files
NextCleanup ==
    \/ \E op \in ScannerOps, userId \in KnownUsers :
           ScannerCall(op, userId, PngItem)
    \/ ScannerFindUser
    \/ \E found \in BOOLEAN : detectPythonCommand(found)
    \/ \E op \in ConvertOps, userId \in KnownUsers :
           ConvertCall(op, IdSeq[1], userId)
    \/ ConvertFind
    \/ \E ok \in BOOLEAN, out \in ProcOutputs : ProcExit(ok, out)
    \/ \E out \in ProcOutputs \ {"full"} : ExecTimeout(out)
    \/ \E cleanupOk \in BOOLEAN : StageReturn(cleanupOk)
    \/ UploadFileFindUser
    \/ \E ok, cleanupOk \in BOOLEAN : PipelinePut(ok, cleanupOk)
    \/ \E ok \in BOOLEAN : SaveScanned(ok)
    \/ \E ok \in BOOLEAN : SaveOriginal(ok)
    \/ Tick

SpecCleanup == InitPipeline /\ [][NextCleanup]_vars

\* two scanner requests at once: one whole request and the extract stage
\* of another
NextPipelinePair ==
    \/ \E op \in ScannerOps : ScannerCall(op, "u1", PngItem)
    \/ ScannerFindUser
    \/ detectPythonCommand(TRUE)
    \/ \E ok \in BOOLEAN, out \in ProcOutputs : ProcExit(ok, out)
    \/ StageReturn(TRUE)
    \/ UploadFileFindUser
    \/ \E ok \in BOOLEAN : PipelinePut(ok, TRUE)
    \/ \E ok \in BOOLEAN : SaveScanned(ok)
    \/ \E ok \in BOOLEAN : SaveOriginal(ok)
    \/ RivalStageEnter
    \/ RivalStageStart
    \/ \E ok \in BOOLEAN, out \in ProcOutputs : RivalProcExit(ok, out)
    \/ RivalStageReturn
    \/ Tick

SpecPipelinePair == InitPipeline /\ [][NextPipelinePair]_vars

\* batches of ids a deleteFiles or mergeFiles request may name: up to n ids
\* of the pool or of no record, in the order of the uuid type
IdBatches(n) ==
    {q \in SeqsUpTo(IdPool \cup {GhostId}, n) :
        \A i \in 1..(Len(q) - 1) : IdRank(q[i]) <= IdRank(q[i + 1])}

\* no call of the files service is in progress
Quiet ==
    /\ upPc = "idle"
    /\ mgPc = "idle"
    /\ delPc \in {"idle", "done", "failed"}
    /\ updPc \in {"idle", "done", "failed"}
    /\ plPc \in {"idle", "done", "failed"}
    /\ lsPc # "paging"

\* a store holding the one- or two-key record an earlier upload left
InitFiles ==
    /\ \E nKeys \in 1..2 :
          InitStore({SeedFile(1, "u1", nKeys, ClockBase, "active")})
    /\ clock = ClockBase
    /\ InitProcesses

FilesUploadInputs == {<<PngItem>>, <<PngItem, JpgItem>>}

\* calls of one owner, one after the other: uploads and merges, one
\* updateFile and one deleteFiles
\* the uuid generator hands out the ids of the pool in their order
IdsInOrder == usedIds' = {IdSeq[k] : k \in 1..Cardinality(usedIds')}

NextFiles ==
    \/ /\ Quiet
       /\ uploadSeq < MaxUploadSeq
       /\ \E files \in FilesUploadInputs : UploadCall("u1", files)
    \/ UploadFindUser
    \/ \E i \in 1..2, ok \in BOOLEAN : PutSettle(i, ok)
    \/ UploadSave /\ IdsInOrder
    \/ UploadReturn
    \/ /\ Quiet
       /\ \E fileIds \in IdBatches(2) : MergeCall("u1", fileIds)
    \/ MergeFind
    \/ MergeFindUser
    \/ MergeSave /\ IdsInOrder
    \/ MergeReturn
    \/ /\ Quiet
       /\ \E fileId \in IdPool :
             UpdateCall(fileId, "u1", [status |-> "deleted"])
    \/ UpdateFind
    \/ UpdateSave
    \/ /\ Quiet
       /\ \E fileIds \in IdBatches(1) : DeleteCall("u1", fileIds)
    \/ DeleteFind
    \/ \E p \in 1..4 : DeleteSettle(p, TRUE)
    \/ DeleteRemove

SpecFiles == InitFiles /\ [][NextFiles]_vars

\* an updateFile and a deleteFiles of the same owner, interleaved
RaceIds == {IdSeq[k] : k \in 1..MaxKept}

NextRace ==
    \/ \E fileId \in RaceIds, updateDto \in UpdateInputs :
           UpdateCall(fileId, "u1", updateDto)
    \/ UpdateFind
    \/ UpdateSave
    \/ UpdateReturn
    \/ \E fileId \in RaceIds : DeleteCall("u1", <<fileId>>)
    \/ DeleteFind
    \/ \E p \in 1..MaxKept, ok \in BOOLEAN : DeleteSettle(p, ok)
    \/ DeleteRemove
    \/ DeleteReturn
    \/ Tick

SpecRace == InitStatus /\ [][NextRace]_vars

\* two deleteFiles calls of the same owner, interleaved
NextDeletePair ==
    \/ \E fileIds \in DeleteInputs : DeleteCall("u1", fileIds)
    \/ DeleteFind
    \/ \E p \in 1..(2 * MaxStored), ok \in BOOLEAN : DeleteSettle(p, ok)
    \/ DeleteRemove
    \/ \E fileIds \in DeleteInputs : RivalDeleteCall("u1", fileIds)
    \/ RivalDeleteFind
    \/ \E p \in 1..(2 * MaxStored), ok \in BOOLEAN :
           RivalDeleteSettle(p, ok)
    \/ RivalDeleteRemove

SpecDeletePair == InitDelete /\ [][NextDeletePair]_vars

\* stores holding MaxKept active one-key records of the first user, written
\* at either of two instants, the later one being now
InitChurn ==
    /\ \E at \in [1..MaxKept -> {ClockBase - 1, ClockBase}] :
          InitStore({SeedFile(j, "u1", 1, at[j], "active") : j \in 1..MaxKept})
    /\ clock = ClockBase
    /\ InitProcesses

ChurnIds == {IdSeq[k] : k \in 1..MaxKept}

\* the traversal is between two page fetches and no writing call is in
\* progress
NoWriter ==
    /\ lsPc = "paging"
    /\ upPc \in {"idle", "done", "failed"}
    /\ mgPc \in {"idle", "done", "failed"}
    /\ updPc = "idle"

\* one traversal of the list in pages of one record; between its page
\* fetches updateFile calls and one inserting call (mergeFiles or
\* uploadFiles) of the same owner, one at a time, write the table
NextChurn ==
    \/ ListStart("u1", NULL, LimitMin)
    \/ ListNext
    \/ /\ NoWriter
       /\ \E fileId \in ChurnIds, status \in {"active", "deleted"} :
             UpdateCall(fileId, "u1", [status |-> status])
    \/ UpdateFind
    \/ UpdateSave
    \/ UpdateReturn
    \/ /\ NoWriter
       /\ upPc = "idle"
       /\ \E fileId \in ChurnIds : MergeCall("u1", <<fileId>>)
    \/ MergeFind
    \/ MergeFindUser
    \/ MergeSave
    \/ /\ NoWriter
       /\ mgPc = "idle"
       /\ UploadCall("u1", <<PngItem>>)
    \/ UploadFindUser
    \/ PutSettle(1, TRUE)
    \/ UploadSave
    \/ Tick

SpecChurn == InitChurn /\ [][NextChurn]_vars

\* a store holding two records of the first user and one of the second
InitIsolation ==
    /\ InitStore({SeedFile(1, "u1", 1, ClockBase, "active"),
                  SeedFile(2, "u2", 1, ClockBase, "active"),
                  SeedFile(3, "u1", 1, ClockBase, "active")})
    /\ clock = ClockBase
    /\ InitProcesses

\* ids a caller may name: of an own record, of a record of the other user,
\* of no record
IsolationIds == {IdSeq[1], IdSeq[2], GhostId}

\* cursors a caller may send: none, or one pointing at the record of the
\* other user
IsolationCursors ==
    {NULL, EncodeCursor(SeedFile(2, "u2", 1, ClockBase, "active"))}

\* calls of the first user, one after the other
NextIsolation ==
    \/ /\ Quiet
       /\ \E cursor \in IsolationCursors : ListStart("u1", cursor, LimitMin)
    \/ ListNext
    \/ /\ Quiet
       /\ \E fileId \in IsolationIds : GetFileCall(fileId, "u1")
    \/ /\ Quiet
       /\ \E fileId \in IsolationIds :
             UpdateCall(fileId, "u1", [status |-> "deleted"])
    \/ UpdateFind
    \/ UpdateSave
    \/ /\ Quiet
       /\ \E fileIds \in SeqsUpTo(IsolationIds, 2) : DeleteCall("u1", fileIds)
    \/ DeleteFind
    \/ \E p \in 1..2 : DeleteSettle(p, TRUE)
    \/ DeleteRemove
    \/ /\ Quiet
       /\ \E fileIds \in SeqsUpTo(IsolationIds, 2) : MergeCall("u1", fileIds)
    \/ MergeFind
    \/ MergeFindUser
    \/ MergeSave /\ IdsInOrder
    \/ MergeReturn
    \/ /\ Quiet
       /\ \E op \in ConvertOps, fileId \in IsolationIds :
             ConvertCall(op, fileId, "u1")
    \/ ConvertFind
    \/ \E ok \in BOOLEAN : ProcExit(ok, IF ok THEN "full" ELSE "none")
    \/ StageReturn(TRUE)
    \/ PipelinePut(TRUE, TRUE)

SpecIsolation == InitIsolation /\ [][NextIsolation]_vars

\* ============================================================ properties

\* ------------------------------------------------------------------ C1
\* C1: a traversal that starts without cursor and echoes every nextCursor
\* returns records of its owner that were active when it started, in
\* strictly descending (updatedAt, id) order (so none twice), and, once
\* nextCursor is null, has returned every record that is still in the
\* store, whatever deleteFiles removed between the page fetches.
TraversalListsEachRecordOnce ==
    (lsPc \in {"paging", "done"} /\ lsReqCursor = NULL) =>
        /\ \A p, q \in 1..Len(lsSeen) :
               p < q => FileLess(lsSeen[q], lsSeen[p])
        /\ \A p \in 1..Len(lsSeen) : lsSeen[p] \in lsStart
        /\ lsPc = "done" =>
               \A f \in lsStart :
                   f \in fileRepository => f \in Range(lsSeen)

\* a finished traversal of several pages during which one record was
\* removed before its page and another after it had been returned
TraversalWithDeletesWitness ==
    /\ lsPc = "done"
    /\ lsReqCursor = NULL
    /\ lsLimit = 1
    /\ Len(lsSeen) >= 2
    /\ \E f \in lsStart : f \notin Range(lsSeen)
    /\ \E p \in 1..Len(lsSeen) : lsSeen[p] \notin fileRepository

\* ------------------------------------------------------------------ C2
InvalidBase64(cursor) == \E i \in 1..Len(cursor) : B64Val(cursor[i]) = 64

\* the four ways of the claim in which a cursor is not an issued one
NotAnIssuedCursor(cursor, store) ==
    LET parts == split(FromBase64(cursor), CH_UNDERSCORE)
    IN  /\ cursor # NULL
        /\ \/ InvalidBase64(cursor)
           \/ Len(parts) < 2
           \/ parseInt(parts[1]).nan
           \/ parts[2] \notin {f.id : f \in store}

\* C2: a request whose cursor is not an issued one (no valid base64, no
\* '_' in the decoded text, no number before the '_', no record id after
\* it) never fails and returns the page and nextCursor of the same request
\* without cursor.
ForeignCursorIsFirstPage ==
    [][(/\ lsPc = "idle"
        /\ lsPc' # "idle"
        /\ NotAnIssuedCursor(lsReqCursor', fileRepository))
       => /\ ~lsResult'.error
          /\ lsResult' = GetUserFiles(fileRepository, lsUser', NULL,
                                      lsLimit')]_vars

\* ------------------------------------------------------------------ C3
Unresolved(fileIds, userId, store) ==
    {id \in Range(fileIds) : ~\E f \in store : f.id = id /\ f.user = userId}

\* the step in which the find of deleteFiles answers
DeleteGateStep == delPc = "find" /\ delPc' # "find"

FailedItems == {i \in 1..Len(upKeys) : upKeys[i] \notin bucket}

ItemOfUrl(url) == CHOOSE i \in 1..Len(upKeys) : UrlOf(upKeys[i]) = url

\* C4: when some but not all puts of an uploadFiles call failed, the call
\* succeeds and the record it created lists exactly the surviving items,
\* N - |F| of them, in request order.
SurvivorsKeepRequestOrder ==
    (upPc \in {"done", "failed"} /\ upKeys # <<>> /\ FailedItems # {}
        /\ FailedItems # 1..Len(upKeys)) =>
        /\ upPc = "done"
        /\ upResult.kind = "ok"
        /\ LET r == upResult.files[1]
           IN  /\ r \in fileRepository
               /\ Len(r.fileUrls) = Len(upFiles) - Cardinality(FailedItems)
               /\ Range(r.fileUrls) =
                      {UrlOf(upKeys[i]) : i \in (1..Len(upKeys)) \ FailedItems}
               /\ \A p, q \in 1..Len(r.fileUrls) :
                      p < q => ItemOfUrl(r.fileUrls[p]) < ItemOfUrl(r.fileUrls[q])

\* a successful call of three items or more that lost one and kept two
SurvivorsWitness ==
    /\ upPc = "done"
    /\ FailedItems # {}
    /\ Len(upResult.files[1].fileUrls) >= 2

\* ------------------------------------------------------------------ C5
\* C5: when every put of an uploadFiles call has failed, the call ends in
\* the aggregate failure and no record is created; a record is only ever
\* created by a call of which some put committed.
AllPutsFailedCreatesNothing ==
    [][/\ (upPc = "uploading" /\ upPc' # "uploading"
              /\ FailedItems = 1..Len(upKeys))
          => /\ upPc' = "failed"
             /\ upResult'.kind = "BadRequest"
             /\ fileRepository' = fileRepository
       /\ (fileRepository' # fileRepository)
          => (upPc = "uploading" /\ FailedItems # 1..Len(upKeys))]_vars

\* a call of several items that ended in the aggregate failure
AllPutsFailedWitness ==
    /\ upPc = "failed"
    /\ upResult.message = "All files failed to upload"
    /\ Len(upFiles) >= 2
    /\ fileRepository = {}

\* ------------------------------------------------------------------ C6
PreflightViolation(userId, files) ==
    \/ Len(files) = 0
    \/ \E i \in 1..Len(files) : files[i].mimetype \notin allowedMimeTypes
    \/ userId \notin KnownUsers

\* C6: an uploadFiles call with an empty batch, an item of a type outside
\* the allow-list or an unknown owner fails without a put having been sent
\* and without a record having been created, in each of its steps.
PreflightRejectsWholeBatch ==
    [][/\ (upPc = "idle" /\ upPc' # "idle"
              /\ PreflightViolation(upUser', upFiles'))
          => /\ upPc' \in {"failed", "findUser"}
             /\ upPc' = "findUser" => UploadPreflight(upFiles') = "ok"
             /\ UNCHANGED <<fileRepository, bucket, s3Sent>>
       /\ (upPc = "findUser" /\ upPc' # "findUser"
              /\ PreflightViolation(upUser, upFiles))
          => /\ upPc' = "failed"
             /\ upResult'.kind = "NotFound"
             /\ UNCHANGED <<fileRepository, bucket, s3Sent>>
       /\ (upPc = "idle" /\ upPc' = "failed")
          => upResult'.kind = "BadRequest"]_vars

\* a batch rejected for one item's type although its first item is allowed
PreflightWitness ==
    /\ upPc = "failed"
    /\ upResult.message = "Invalid file type"
    /\ Len(upFiles) >= 2
    /\ upFiles[1].mimetype \in allowedMimeTypes
    /\ s3Sent = {}

\* ------------------------------------------------------------------ C7
\* first item, in request order, whose put committed
FirstSurvivor ==
    CHOOSE i \in (1..Len(upKeys)) \ FailedItems :
        \A j \in (1..Len(upKeys)) \ FailedItems : i <= j

\* C7: the step that makes an uploadFiles call succeed adds exactly one
\* record, of the caller and active, whose thumbnailUrl is the url of the
\* first surviving item and the head of fileUrls and whose fileName is that
\* item's name; no other step of the call adds or changes a record.
UploadCreatesOneRecord ==
    [][/\ (upPc = "uploading" /\ upPc' = "done")
          => \E r \in fileRepository' :
                 /\ fileRepository' = fileRepository \cup {r}
                 /\ \A f \in fileRepository : f.id # r.id
                 /\ upResult' = [kind |-> "ok", files |-> <<r>>]
                 /\ r.user = upUser
                 /\ r.status = "active"
                 /\ r.thumbnailUrl = UrlOf(upKeys[FirstSurvivor])
                 /\ r.thumbnailUrl = r.fileUrls[1]
                 /\ r.fileName = upFiles[FirstSurvivor].originalname
       /\ (upPc' = "done" /\ upPc # "done") => upPc = "uploading"
       /\ (fileRepository' # fileRepository) => upPc' = "done"]_vars

\* a successful call whose first item failed and whose record therefore
\* takes name and thumbnail from a later item, followed by another one
UploadRecordWitness ==
    /\ upPc = "done"
    /\ 1 \in FailedItems
    /\ Len(upResult.files[1].fileUrls) >= 2
    /\ upResult.files[1].fileName = upFiles[FirstSurvivor].originalname
    /\ upFiles[FirstSurvivor].originalname # upFiles[1].originalname

\* ------------------------------------------------------------------ C8
\* C8: past the validation gate a deleteFiles call cannot fail: it ends in
\* success, having sent a delete for every key of every requested record
\* and with no requested record left in the store, however many of the
\* object-store deletions failed.
DeleteSurvivesStoreFailures ==
    [][/\ (delPc = "deleting") => (delPc' \in {"deleting", "done"})
       /\ (delPc = "deleting" /\ delPc' = "done")
          => /\ delResult'.kind = "ok"
             /\ \A f \in delFiles : \A i \in 1..Len(f.fileUrls) :
                    /\ FileKeyOfUrl(f.fileUrls[i]) \in Range(delKeys)
                    /\ [cmd |-> "delete", key |-> FileKeyOfUrl(f.fileUrls[i])]
                           \in s3Sent
             /\ {f.id : f \in delFiles} = Range(delIds)
             /\ \A f \in fileRepository' : f.id \notin Range(delIds)]_vars

\* a successful call of which every object-store deletion failed
DeleteAllStoreFailuresWitness ==
    /\ delPc = "done"
    /\ Len(delKeys) >= 2
    /\ \A k \in Range(delKeys) : k \in bucket
    /\ \A f \in fileRepository : f.id \notin Range(delIds)

\* ------------------------------------------------------------------ C9
\* C9: a step that removes a record is taken by a deleteFiles call none of
\* whose object-store deletions is still pending.
RemovalAfterDeletionPass ==
    [][(\E f \in fileRepository : f \notin fileRepository')
       => (delPc = "deleting" /\ delPending = {} /\ delPc' = "done")]_vars

\* records removed by a call that had several deletions to wait for
RemovalWitness ==
    /\ delPc = "done"
    /\ Len(delKeys) >= 2
    /\ delPending = {}
    /\ \A f \in delFiles : f \notin fileRepository

\* ----------------------------------------------------------------- C10
\* C10: a deleteFiles call that names an id for which an earlier call of
\* the same owner succeeded fails with NotFound at the gate, without a
\* delete sent and without a record removed.
DeleteAgainIsNotFound ==
    [][(DeleteGateStep
           /\ \E i \in 1..Len(delIds) : <<delUser, delIds[i]>> \in delDone)
       => /\ delPc' = "failed"
          /\ delResult'.kind = "NotFound"
          /\ UNCHANGED <<fileRepository, bucket, s3Sent>>]_vars

\* a second call rejected for an id that the first call deleted, although
\* its other id still resolves
DeleteAgainWitness ==
    /\ delPc = "failed"
    /\ delResult.kind = "NotFound"
    /\ \E i \in 1..Len(delIds) : <<delUser, delIds[i]>> \in delDone
    /\ \E f \in fileRepository : f.id \in Range(delIds) /\ f.user = delUser

\* ------------------------------------------------------------------ C11
\* a stage process that exited with code 0 and left no output file or an
\* empty one
SilentStageFailure ==
    \E i \in 1..Len(plStages) :
        plStages[i].exit = "ok" /\ plStages[i].out \in {"none", "empty"}

\* C11: when a stage process returns without error but its output file is
\* missing or has zero bytes, the request does not end in success and
\* issues no put to the object store.
SilentStageFailureIsFailure ==
    SilentStageFailure => (plPc # "done" /\ plPuts = <<>>)

\* ------------------------------------------------------------------ C12
\* C12: when a pipeline request has reached its terminal state, by
\* whatever exit path, none of the temporary files and directories it
\* created exists any more.
TerminalLeavesNoTempFile ==
    plPc \in {"done", "failed"} => tmpFiles = {}

\* a request that failed after its stage process was killed by the timeout
\* with a partly written output file in the temporary directory
TerminalAfterTimeoutWitness ==
    /\ plPc = "failed"
    /\ \E i \in 1..Len(plStages) :
           plStages[i].exit = "killed" /\ plStages[i].out = "empty"

\* ------------------------------------------------------------------ C13
\* C13: every stage invocation is time-bounded, so every pipeline request
\* that was started eventually reaches its terminal state, whether or not
\* the stage process returns by itself.
PipelineTerminates ==
    (plPc # "idle") ~> (plPc \in {"done", "failed"})

\* ------------------------------------------------------------------ C14
StageFailedAt(i) ==
    \/ plStages[i].exit \in {"nopython", "error", "killed"}
    \/ plStages[i].exit = "ok" /\ plStages[i].out = "none"

StageSucceeded(name) ==
    \E i \in 1..Len(plStages) :
        /\ plStages[i].name = name
        /\ plStages[i].exit = "ok"
        /\ plStages[i].out # "none"

ScannerTwoRecordsOrNone ==
    plOp \in ScannerOps =>
        /\ plPc = "done" =>
               /\ Cardinality(mediaRepository) = 2
               /\ \E m \in mediaRepository : m.fileUrl = NULL
               /\ \E m \in mediaRepository : m.fileUrl # NULL
        /\ plPc = "failed" => mediaRepository = {}

\* ------------------------------------------------------------------ C16
ListStep == lsPc' # lsPc \/ lsResult' # lsResult

\* C16: no page of getUserFiles holds a record whose row is not active,
\* and getTotalFilesCount does not count one: a record that updateFile
\* switched off is absent until updateFile switches it on again.
NonActiveNeverListed ==
    [][/\ ListStep =>
            \A i \in 1..Len(lsResult'.files) :
                \A r \in fileRepository :
                    r.id = lsResult'.files[i].id => r.status = "active"
       /\ totResult' # totResult =>
            totResult'.count =
                Cardinality({r \in fileRepository : r.user = totResult'.user}
                            \ {r \in fileRepository : r.status # "active"})
      ]_vars

\* a traversal that ended without the newest record of its owner, which
\* updateFile had switched off before the traversal started, while the
\* count told one record less than the owner has
SwitchedOffWitness ==
    /\ lsPc = "done"
    /\ Len(lsSeen) >= 1
    /\ totResult.count = Len(lsSeen)
    /\ \E r \in fileRepository :
           /\ r.status = "deleted"
           /\ r.updatedAt > r.createdAt
           /\ \A f \in lsStart : f.id # r.id
           /\ \A i \in 1..Len(lsSeen) : r.updatedAt > lsSeen[i].updatedAt

\* ------------------------------------------------------------------ C17
\* the limit in force for a requested one
LimitInForce(limitArg) == IF limitArg = 0 THEN DefaultLimit ELSE limitArg

\* the matching rows that come after the last record of a page
RowsAfter(store, userId, page) ==
    {r \in store : /\ r.user = userId
                   /\ r.status = "active"
                   /\ FileLess(r, page[Len(page)])}

\* C17: a page never holds more than limit records; nextCursor is not null
\* exactly when a matching record comes after the last record of the page,
\* and then it is the encoding of (updatedAt, id) of that last record.
PageAndCursorAreExact ==
    [][(ListStep /\ ~lsResult'.error) =>
        LET page == lsResult'.files
            cursor == lsResult'.nextCursor
        IN  /\ Len(page) <= LimitInForce(lsLimit')
            /\ page = <<>> => cursor = NULL
            /\ page # <<>> =>
                 /\ (cursor # NULL) <=>
                        (RowsAfter(fileRepository, lsUser', page) # {})
                 /\ cursor # NULL =>
                        FromBase64(cursor) =
                            Text(page[Len(page)].updatedAt,
                                 page[Len(page)].id)
      ]_vars

\* a full page of two records followed by a third record of the owner
FullPageWitness ==
    /\ lsPc = "paging"
    /\ lsLimit = 2
    /\ Len(lsResult.files) = 2
    /\ lsResult.nextCursor # NULL
    /\ RowsAfter(fileRepository, lsUser, lsResult.files) # {}

\* ------------------------------------------------------------------ C18
Clamp(n) == IF n < LimitMin THEN LimitMin
            ELSE IF n > LimitMax THEN LimitMax ELSE n

\* C18: the limit in force is the requested one clamped to 1..100, or 20
\* when none is requested, and the query fetches that limit plus one rows.
LimitIsClamped ==
    [][ListStep =>
        lsResult'.fetch =
            (IF lsLimit' = 0 THEN DefaultLimit ELSE Clamp(lsLimit')) + 1
      ]_vars

\* ------------------------------------------------------------------ C19
\* C19: decoding the nextCursor of a page yields the (updatedAt, id) of
\* the last record of that page.
CursorRoundTrip ==
    lsResult.nextCursor # NULL =>
        LET last == lsResult.files[Len(lsResult.files)]
            c == DecodeCursor(lsResult.nextCursor)
        IN  /\ c.applied
            /\ ~c.updatedAt.nan
            /\ c.updatedAt.val = last.updatedAt
            /\ c.id = last.id

\* a nextCursor built from a record whose updatedAt has two digits
TwoDigitCursorWitness ==
    /\ lsResult.nextCursor # NULL
    /\ lsResult.files[Len(lsResult.files)].updatedAt >= 10

\* ------------------------------------------------------------------ C20
\* C20: updatedAt >= createdAt for every record, and every write that
\* changes the status of a record sets its updatedAt to a value strictly
\* greater than the one it had.
UpdatedAtStrictlyIncreases ==
    [][/\ \A r \in fileRepository' : r.updatedAt >= r.createdAt
       /\ \A r \in fileRepository :
            \A q \in fileRepository' :
                (q.id = r.id /\ q.status # r.status) =>
                    q.updatedAt > r.updatedAt
      ]_vars

\* ------------------------------------------------------------------ C21
\* C21: after any sequence of uploadFiles, mergeFiles, updateFile and
\* deleteFiles calls, every active record has a non-empty fileUrls and a
\* thumbnailUrl equal to the first element of its fileUrls.
ActiveRecordsHaveThumbnail ==
    \A f \in fileRepository :
        f.status = "active" =>
            /\ Len(f.fileUrls) > 0
            /\ f.thumbnailUrl = f.fileUrls[1]

\* the upload numbers of the keys a record lists
UploadsOf(f) == {FileKeyOfUrl(f.fileUrls[i])[2] : i \in 1..Len(f.fileUrls)}

\* an active record merged from the records of two uploads, after an
\* updateFile and a deleteFiles went through
MergedOfTwoWitness ==
    /\ \E f \in fileRepository :
          f.status = "active" /\ Cardinality(UploadsOf(f)) > 1
    /\ updPc = "done"
    /\ delPc = "done"

\* ------------------------------------------------------------------ C28
\* C28: after a successful deleteFiles no remaining record lists in its
\* fileUrls a key that the call deleted from the object store, also when
\* the deleted record was the source of an earlier mergeFiles.
NoRecordListsDeletedKey ==
    delPc = "done" =>
        \A f \in fileRepository :
            \A i \in 1..Len(f.fileUrls) :
                FileKeyOfUrl(f.fileUrls[i]) \notin Range(delKeys)

\* ------------------------------------------------------------------ C26
\* C26: in uploadFiles the put of every item is attempted whatever the
\* other puts do, and the call builds its record, or fails, only once
\* every put attempt has settled.
PutsAttemptedAndSettledBeforeSave ==
    [][/\ upPc' = "uploading" =>
            \A i \in 1..Len(upFiles') :
                [cmd |-> "put", key |-> upKeys'[i]] \in s3Sent'
       /\ (upPc = "uploading" /\ upPc' # "uploading") =>
            \A i \in 1..Len(upFiles) : upResults[i] # "pending"
       /\ (upPc = "uploading" /\ fileRepository' # fileRepository) =>
            \A i \in 1..Len(upFiles) : upResults[i] # "pending"
      ]_vars

\* a call that saved its record after the put of an earlier item had
\* failed and the put of a later item had gone through
PutAfterFailureWitness ==
    /\ upPc = "done"
    /\ \E i, j \in 1..Len(upFiles) :
          /\ i < j
          /\ upResults[i] = "null"
          /\ upResults[j] = "fulfilled"
          /\ upKeys[j] \in bucket

\* ------------------------------------------------------------------ C27
\* C27: a deleteFiles call that succeeds removes the rows of exactly the
\* ids it was given, all of them rows of the caller, and leaves every other
\* row as it was in every field; a call that has not succeeded has removed
\* and changed nothing.
DeleteRemovesExactlyRequested ==
    [][IF delPc # "done" /\ delPc' = "done"
       THEN /\ delResult'.kind = "ok"
            /\ \A id \in Range(delIds) :
                  /\ \E f \in fileRepository : f.id = id /\ f.user = delUser
                  /\ \A f \in fileRepository' : f.id # id
            /\ fileRepository' =
                   {f \in fileRepository : f.id \notin Range(delIds)}
       ELSE fileRepository' = fileRepository
      ]_vars

\* a successful call that left a record behind
DeleteLeavesOthersWitness ==
    /\ delPc = "done"
    /\ delResult.kind = "ok"
    /\ Len(delIds) > 0
    /\ fileRepository # {}

\* ------------------------------------------------------------------ C23
\* C23: of two deleteFiles calls of one owner that name a common id and
\* run interleaved, at most one reports success.
AtMostOneDeleteSucceeds ==
    ~(/\ delPc = "done" /\ delResult.kind = "ok"
      /\ d2Pc = "done" /\ d2Result.kind = "ok"
      /\ delUser = d2User
      /\ Range(delIds) \cap Range(d2Ids) # {})

\* ------------------------------------------------------------------ C29
\* C29: once deleteFiles has returned success for an id, no record with
\* that id is in the store in any later state.
DeletedStaysDeleted ==
    \A done \in delDone : \A f \in fileRepository : f.id # done[2]

CleanupNeverChangesOutcome ==
    [][(plPc = "exec" /\ plProc \in {"ok", "error", "killed"}
        /\ plPc' # "exec") =>
            LET failed == StageFailed(plProc,
                                      Exists(tmpFiles, plStage.output))
            IN  /\ (plPc' = "failed") <=> failed
                /\ failed => plResult' = PipelineFail("BadRequest")
      ]_vars

\* ------------------------------------------------------------------ C24
\* C24: two pipeline requests that are inside a stage at the same time use
\* disjoint sets of temporary input and output paths.
TempPathsDisjoint ==
    (plPc \in {"detect", "exec"} /\ rvPc \in {"detect", "exec"}) =>
        {plStage.input, plStage.output}
            \cap {rvStage.input, rvStage.output} = {}

\* ------------------------------------------------------------------ C30
\* the rows of an owner, and the keys they list
Own(store, userId) == {f \in store : f.user = userId}
KeysOf(files) ==
    UNION {{FileKeyOfUrl(f.fileUrls[i]) : i \in 1..Len(f.fileUrls)}
              : f \in files}

\* C30: whatever the first user calls, no row of the other user is
\* changed or removed and no key such a row lists is deleted; every answer
\* and every set of rows a call works on is what it would be on a store
\* without the rows of the other user, so an id of the other user is
\* answered like an id of no record.
OwnerIsolation ==
    [][/\ Own(fileRepository', "u2") = Own(fileRepository, "u2")
       /\ KeysOf(Own(fileRepository, "u2")) \cap bucket \subseteq bucket'
       /\ (lsPc = "idle" /\ lsPc' # "idle") =>
              lsResult' = GetUserFiles(Own(fileRepository, lsUser'), lsUser',
                                       lsReqCursor', lsLimit')
       /\ (lsPc = "paging" /\ lsResult' # lsResult) =>
              lsResult' = GetUserFiles(Own(fileRepository, lsUser), lsUser,
                                       lsCursor, lsLimit)
       /\ \A p \in 1..Len(lsSeen') : lsSeen'[p].user = lsUser'
       /\ gfResult' # gfResult =>
              \/ gfResult' = [kind |-> "NotFound", message |-> "File not found"]
              \/ /\ gfResult'.kind = "ok"
                 /\ gfResult'.file \in Own(fileRepository, "u1")
       /\ (updPc = "find" /\ updPc' # "find") =>
              IF \E f \in Own(fileRepository, updUser) : f.id = updId
              THEN updPc' = "save" /\ updFile'.user = updUser
              ELSE updPc' = "failed" /\ updResult' = [kind |-> "NotFound"]
       /\ (delPc = "find" /\ delPc' # "find") =>
              LET files == {f \in Own(fileRepository, delUser) :
                               f.id \in Range(delIds)}
                  outcome == DeleteOutcome(delIds, files)
              IN  IF outcome.kind = "proceed"
                  THEN delPc' = "deleting" /\ delFiles' = files
                  ELSE delPc' = "failed" /\ delResult' = outcome
       /\ (mgPc = "find" /\ mgPc' # "find") =>
              LET files == {f \in Own(fileRepository, mgUser) :
                               f.id \in Range(mgIds)}
              IN  IF \A id \in Range(mgIds) : \E f \in files : f.id = id
                  THEN mgPc' = "findUser" /\ Range(mgFiles') = files
                  ELSE mgPc' = "failed" /\ mgResult'.kind = "NotFound"
       /\ (plPc = "findFile" /\ plPc' # "findFile") =>
              IF \E f \in Own(fileRepository, plUser) : f.id = plFile.id
              THEN plPc' = "exec"
              ELSE plPc' = "failed" /\ plResult' = PipelineFail("NotFound")
      ]_vars

\* the first user has named the record of the other user in a delete, a
\* merge, an update and a conversion, has removed and merged records of
\* its own, and the record of the other user and its object are there
IsolationWitness ==
    /\ delPc = "done"
    /\ mgPc = "idle" /\ mgCalls > 0
    /\ updPc = "failed" /\ updId = IdSeq[2]
    /\ plPc = "failed" /\ plFile.id = IdSeq[2]
    /\ gfResult.kind = "NotFound"
    /\ lsPc = "done"
    /\ Cardinality(Own(fileRepository, "u1")) = 2
    /\ Own(fileRepository, "u2") # {}
    /\ KeysOf(Own(fileRepository, "u2")) \subseteq bucket

====
